---- MODULE Spec2Model ----
(***************************************************************************)
(* A model of quaker's paginated fetch: quaker/core/client.py (Client),     *)
(* quaker/core/record_filter.py (Cache, RecordFilter), the line parsers of  *)
(* quaker/core/parser.py and the Query fields the client reads and writes   *)
(* (quaker/core/query.py), together with the USGS event service the client  *)
(* talks to.                                                                *)
(***************************************************************************)
EXTENDS Integers, Sequences, FiniteSets, TLC

VARIABLES
    cache,            \* Cache harness: the Cache object under test
    cacheOp,          \* Cache harness: what the last Cache call did
    pc,               \* Client: "idle" | "loop" | "done" | "failed"
    catalogue,        \* service: the events it holds, a sequence indexed by id
    query,            \* Client._execute_paginiated: the current Query
    limit,            \* Client._execute_paginiated: limit, the caller's remaining limit
    page_index,       \* Client._execute_paginiated: page_index
    has_next_page,    \* Client._execute_paginiated: has_next_page
    results,          \* Client._execute_paginiated: results
    footer,           \* Client._execute_paginiated: footer of the last page
    record_filter,    \* Client._execute_paginiated: the RecordFilter
    history,          \* Client.history: the queries sent
    pages,            \* what each fetched page held (history of responses)
    caller_query,     \* the Query object the caller passed: as given, and as it is
    attempts,         \* Client._execute: GETs made so far for the current page
    error,            \* the exception raised, if any
    output_file,      \* Client.execute: output_file (None: return a DataFrame)
    sink,             \* the output file on disk
    output,           \* what Client.execute returned
    interrupted,      \* where a KeyboardInterrupt arrived, if one did
    kwargs,           \* Query harness: the keyword arguments of Query(...)
    constructed,      \* Query harness: what Query(...) did
    query_dict,       \* Query harness: what Query.dict returned
    parser,           \* Query harness: what Parser(query) did
    geo_responses,    \* GeoJSON harness: the response bodies still to unpack
    geo_fetch,        \* GeoJSON harness: what the fetch has gathered
    geo_file,         \* GeoJSON harness: the lines written to the file
    run               \* run_query: the recursive engine of quaker/core/run.py

vars ==
    <<cache, cacheOp, pc, catalogue, query, limit, page_index,
      has_next_page, results, footer, record_filter, history, pages, caller_query,
      attempts, error, output_file, sink, output, interrupted,
      kwargs, constructed, query_dict, parser,
      geo_responses, geo_fetch, geo_file, run>>

cacheVars == <<cache, cacheOp>>

queryVars == <<kwargs, constructed, query_dict, parser>>

geoVars == <<geo_responses, geo_fetch, geo_file>>

runVars == <<run>>

\* the variables of the units that are examined on their own
unitVars == <<cacheVars, queryVars, geoVars, runVars>>

execVars == <<attempts, error, output_file, sink, output, interrupted>>

clientVars ==
    <<pc, catalogue, query, limit, page_index, has_next_page,
      results, footer, record_filter, history, pages, caller_query, execVars>>

(***************************************************************************)
(* Bounds of the model.                                                     *)
(***************************************************************************)
\* the per-request cap, globals.UPPER_LIMIT (20000), scaled down as the
\* tests do (mocker.patch('quaker.core.client.UPPER_LIMIT', 20))
UPPER_LIMIT == 3
\* the page ceiling client.py imports from quaker.globals
MAX_PAGES == 3
\* events held by the service
MaxEvents == 6
\* event times and magnitudes are drawn from 1..MaxKey
MaxKey == 4
\* the largest limit a caller passes
MaxLimit == 4
\* GeoJSON responses of one fetch, features of one response, and the ids the
\* features are drawn from (1..MaxFeatureId)
MaxGeoPages == 2
MaxPageFeatures == 3
MaxFeatureId == 3
\* how far outside the bounds of a Query field the values given lie
Beyond == 1
\* values appended to the Cache under test are drawn from 1..MaxValue
MaxValue == 3
\* the largest maxlen of the Cache under test
MaxLen == 2
\* the Cache under test is driven until its stash holds MaxStash values
MaxStash == 3

(***************************************************************************)
(* Optional values (Python's None) and Python's sequence operations.        *)
(***************************************************************************)
None == {}

Some(v) == {v}

Val(o) == CHOOSE v \in o : TRUE

Min(a, b) == IF a <= b THEN a ELSE b

\* s[:n]
Take(s, n) == SubSeq(s, 1, Min(n, Len(s)))

\* s[n:]
Drop(s, n) == SubSeq(s, Min(n, Len(s)) + 1, Len(s))

\* s[-n:]
TakeLast(s, n) == Drop(s, Len(s) - Min(n, Len(s)))

\* s[:-n]
DropLast(s, n) == Take(s, Len(s) - Min(n, Len(s)))

Range(s) == {s[i] : i \in 1..Len(s)}

SeqsUpTo(S, n) == UNION {[1..k -> S] : k \in 0..n}

(***************************************************************************)
(* Cache (quaker/core/record_filter.py): a deque and a set.                 *)
(***************************************************************************)
\* collections.deque(iterable, maxlen): keeps the last maxlen items
Deque(items, maxlen) ==
    IF maxlen = None THEN items ELSE TakeLast(items, Val(maxlen))

\* deque.append: a full bounded deque drops its leftmost item
DequeAppend(stash, value, maxlen) ==
    IF maxlen = None THEN Append(stash, value)
    ELSE IF Val(maxlen) = 0 THEN stash
    ELSE IF Len(stash) >= Val(maxlen) THEN Append(Tail(stash), value)
    ELSE Append(stash, value)

CacheNew(items, maxlen) ==
    [stash |-> Deque(items, maxlen),
     registry |-> Range(Deque(items, maxlen)),
     maxlen |-> maxlen]

\* a variant that never finds the deque full
CacheNeverFull(c) == FALSE

\* `if self.maxlen and len(self.stash) == self.maxlen`
CacheIsFull(c) ==
    /\ c.maxlen # None
    /\ Val(c.maxlen) # 0
    /\ Len(c.stash) = Val(c.maxlen)

CacheContains(c, value) == value \in c.registry

\* Cache.append; set.remove raises KeyError on a value the registry lacks,
\* after popleft has already taken it off the stash
CacheAppend(c, value) ==
    IF CacheIsFull(c) /\ Head(c.stash) \notin c.registry
    THEN [cache |-> [c EXCEPT !.stash = Tail(c.stash)], raised |-> TRUE]
    ELSE LET stash1 == IF CacheIsFull(c) THEN Tail(c.stash) ELSE c.stash
             registry1 == IF CacheIsFull(c)
                          THEN c.registry \ {Head(c.stash)}
                          ELSE c.registry
         IN [cache |-> [c EXCEPT !.stash = DequeAppend(stash1, value, c.maxlen),
                                 !.registry = registry1 \cup {value}],
             raised |-> FALSE]

(***************************************************************************)
(* Query (quaker/core/query.py): the fields the client reads and writes.    *)
(* orderby "none" stands for an unset orderby.                              *)
(***************************************************************************)
Formats == {"csv", "xml"}

OrderBys == {"none", "time", "time-asc", "magnitude", "magnitude-asc"}

NewQuery(format, orderby, lim) ==
    [format |-> format,
     orderby |-> orderby,
     starttime |-> None,
     endtime |-> None,
     minmagnitude |-> None,
     maxmagnitude |-> None,
     limit |-> lim]

\* _QueryOther.__post_init__: the checks on the fields modelled here
QueryValid(q) ==
    /\ (q.minmagnitude # None /\ q.maxmagnitude # None)
          => Val(q.minmagnitude) < Val(q.maxmagnitude)
    /\ q.minmagnitude # None => (0 <= Val(q.minmagnitude) /\ Val(q.minmagnitude) <= 12)
    /\ q.maxmagnitude # None => (0 <= Val(q.maxmagnitude) /\ Val(q.maxmagnitude) <= 12)
    /\ q.limit # None => 0 <= Val(q.limit)

(***************************************************************************)
(* Query construction (quaker/core/query.py): Query(...) typecasts the      *)
(* fields and then runs the checks of its components. A Query is held here  *)
(* as a function from field names to optional values. maxradiuskm is held   *)
(* in tenths of a kilometre, every other number in the unit of its field.   *)
(***************************************************************************)
QueryFields ==
    {"format", "minlatitude", "minlongitude", "maxlatitude", "maxlongitude",
     "latitude", "longitude", "maxradius", "maxradiuskm",
     "includedeleted", "includesuperceded", "limit", "maxdepth", "maxmagnitude",
     "mindepth", "minmagnitude", "offset", "orderby",
     "maxcdi", "maxgap", "mincdi", "mingap"}

\* _BaseQuery.__post_init__: a value that is not of the field's type is
\* passed through the type. The values given here are of their field's type
\* (whole numbers are the same as int and as float), so each is kept.
Typecast(name, value) == value

\* the calls of the _FieldChecker methods
Ordered(min_field_name, max_field_name) ==
    [check |-> "ordered", field_names |-> <<min_field_name, max_field_name>>,
     min_value |-> None, max_value |-> None, allowed_values |-> {}]

Bounded(field_names, min_value, max_value) ==
    [check |-> "bounded", field_names |-> field_names,
     min_value |-> min_value, max_value |-> max_value, allowed_values |-> {}]

MutuallyExclusive(field_names) ==
    [check |-> "exclusive", field_names |-> field_names,
     min_value |-> None, max_value |-> None, allowed_values |-> {}]

AllowedValues(field_name, allowed_values) ==
    [check |-> "allowed", field_names |-> <<field_name>>,
     min_value |-> None, max_value |-> None, allowed_values |-> allowed_values]

\* the checks in the order they run: every __post_init__ calls its parent
\* first, so the components are checked from the last base class of Query
\* to the first
PostInitChecks ==
    << \* _QueryExtensions
       Bounded(<<"mingap", "maxgap">>, Some(0), Some(360)),
       Bounded(<<"mincdi", "maxcdi">>, Some(0), Some(12)),
       Ordered("mingap", "maxgap"),
       Ordered("mincdi", "maxcdi"),
       \* _QueryOther
       MutuallyExclusive(<<"includedeleted", "includesuperceded">>),
       AllowedValues("orderby", {"time", "time-asc", "magnitude", "magnitude-asc"}),
       AllowedValues("includedeleted", {"true", "false", "only"}),
       Ordered("minmagnitude", "maxmagnitude"),
       Ordered("mindepth", "maxdepth"),
       Bounded(<<"minmagnitude", "maxmagnitude">>, Some(0), Some(12)),
       Bounded(<<"offset">>, Some(1), None),
       Bounded(<<"limit">>, Some(0), None),
       \* _QueryLocationCircle
       MutuallyExclusive(<<"maxradius", "maxradiuskm">>),
       Bounded(<<"maxradius">>, Some(0), Some(180)),
       Bounded(<<"maxradiuskm">>, Some(0), Some(200016)),
       Bounded(<<"latitude">>, Some(-90), Some(90)),
       Bounded(<<"longitude">>, Some(-180), Some(180)),
       \* _QueryLocationRectangle
       Bounded(<<"minlatitude", "maxlatitude">>, Some(-90), Some(90)),
       Bounded(<<"minlongitude", "maxlongitude">>, Some(-360), Some(360)),
       Ordered("minlatitude", "maxlatitude"),
       Ordered("minlongitude", "maxlongitude"),
       \* _QueryFormat
       AllowedValues("format", {"csv", "text", "geojson", "xml", "quakeml", "xml"}) >>

\* the exceptions of the fetch
Raise(type, msg, status) == Some([type |-> type, msg |-> msg, status |-> status])

\* the first name in field_names[i..] whose value is out of the bounds
RECURSIVE BoundedFailure(_, _, _)
BoundedFailure(q, c, i) ==
    IF i > Len(c.field_names) THEN None
    ELSE LET field_name == c.field_names[i]
             field_value == q[field_name]
         IN IF field_value # None /\ c.min_value # None
                  /\ ~(Val(c.min_value) <= Val(field_value))
            THEN Some([msg |-> "is less than", field_names |-> <<field_name>>])
            ELSE IF field_value # None /\ c.max_value # None
                  /\ ~(Val(field_value) <= Val(c.max_value))
            THEN Some([msg |-> "is greater than", field_names |-> <<field_name>>])
            ELSE BoundedFailure(q, c, i + 1)

\* _FieldChecker.assert_fields_ordered
AssertFieldsOrdered(q, c) ==
    LET min_field_value == q[c.field_names[1]]
        max_field_value == q[c.field_names[2]]
    IN IF min_field_value # None /\ max_field_value # None
            /\ ~(Val(min_field_value) < Val(max_field_value))
       THEN Some([msg |-> "is larger than", field_names |-> c.field_names])
       ELSE None

\* a variant whose bounds are never looked at
AssertFieldsBoundedNever(q, c) == None

\* _FieldChecker.assert_fields_bounded
AssertFieldsBounded(q, c) == BoundedFailure(q, c, 1)

\* a variant that lets any number of the fields be given
AssertFieldsMutuallyExclusiveNever(q, c) == None

\* _FieldChecker.assert_fields_mutually_exclusive
AssertFieldsMutuallyExclusive(q, c) ==
    LET n_values_not_none ==
            Cardinality({i \in 1..Len(c.field_names) : q[c.field_names[i]] # None})
    IN IF ~(n_values_not_none <= 1)
       THEN Some([msg |-> "Only one of", field_names |-> c.field_names])
       ELSE None

\* _FieldChecker.assert_field_allowed_values
AssertFieldAllowedValues(q, c) ==
    LET field_value == q[c.field_names[1]]
    IN IF ~(field_value = None \/ Val(field_value) \in c.allowed_values)
       THEN Some([msg |-> "Invalid", field_names |-> c.field_names])
       ELSE None

\* what one check finds: nothing, or the assertion that fails
CheckFailure(q, c) ==
    CASE c.check = "ordered" -> AssertFieldsOrdered(q, c)
      [] c.check = "bounded" -> AssertFieldsBounded(q, c)
      [] c.check = "exclusive" -> AssertFieldsMutuallyExclusive(q, c)
      [] OTHER -> AssertFieldAllowedValues(q, c)

\* the first check of PostInitChecks[i..] that fails
RECURSIVE FirstFailure(_, _)
FirstFailure(q, i) ==
    IF i > Len(PostInitChecks) THEN None
    ELSE IF CheckFailure(q, PostInitChecks[i]) # None
    THEN CheckFailure(q, PostInitChecks[i])
    ELSE FirstFailure(q, i + 1)

\* Query construction from keyword arguments kw: the dataclass __init__, then the chain of __post_init__
QueryNew(kw) ==
    LET q == [name \in QueryFields |-> Typecast(name, kw[name])]
        failure == FirstFailure(q, 1)
    IN IF failure # None
       THEN [raised |-> Raise("AssertionError", Val(failure).msg, 0),
             failed |-> Val(failure).field_names,
             query |-> None]
       ELSE [raised |-> None, failed |-> <<>>, query |-> Some(q)]

\* a variant that keeps the unset fields
QueryDictWithNones(q, include_nones) == q

\* Query.dict: asdict, then the items whose value is not None
QueryDict(q, include_nones) ==
    IF include_nones THEN q
    ELSE [k \in {name \in DOMAIN q : q[name] # None} |-> q[k]]

(***************************************************************************)
(* Parser.__new__ (quaker/core/parser.py): the variant for a Query.         *)
(***************************************************************************)
\* globals.DEFAULT_FORMAT
DEFAULT_FORMAT == "csv"

\* the dict of Parser.__new__
ParserVariants ==
    [csv |-> "CSVParser", text |-> "TextParser", geojson |-> "GeojsonParser",
     xml |-> "XmlParser", quakeml |-> "XmlParser", kml |-> "KmlParser"]

\* Parser(query): `query.format or DEFAULT_FORMAT` is looked up
ParserNew(q) ==
    LET format == IF q["format"] = None THEN DEFAULT_FORMAT ELSE Val(q["format"])
    IN IF format \notin DOMAIN ParserVariants
       THEN [raised |-> Raise("NotImplementedError", "", 0), variant |-> ""]
       ELSE [raised |-> None, variant |-> ParserVariants[format]]

\* no keyword argument given
NoKwargs == [name \in QueryFields |-> None]

\* Query construction is not looked at
QueryIdle ==
    /\ kwargs = NoKwargs
    /\ constructed = None
    /\ query_dict = None
    /\ parser = None

\* GeoJSON is not looked at
GeoIdle ==
    /\ geo_responses = <<>>
    /\ geo_fetch = [pc |-> "idle", page_index |-> 0, header |-> <<>>, body |-> <<>>,
                    footer |-> <<>>, record_filter |-> CacheNew(<<>>, None), error |-> None,
                    lines |-> <<>>, records |-> <<>>]
    /\ geo_file = <<>>

\* run_query is not looked at
RunIdle ==
    run = [pc |-> "idle", query |-> NewQuery("csv", "none", None), capped |-> FALSE,
           write_header |-> TRUE, index |-> 0, attempts |-> 0, history |-> <<>>,
           answers |-> <<>>, file |-> None, error |-> None]

(***************************************************************************)
(* The event service: it holds a catalogue and answers each query with the  *)
(* matching events in the requested order, at most `limit` of them, the     *)
(* time and magnitude bounds being inclusive (query.py:128-129, 227-230).   *)
(* Events that tie in the ordering field come in a fixed order (by id).     *)
(***************************************************************************)
Keys == 1..MaxKey

TimeOrdered(orderby) == orderby \in {"none", "time", "time-asc"}

\* The values of the field a query orders by, one per event. Events are
\* numbered in the order the service lists them (larger value first, equal
\* values in the service's fixed order), so the values never increase with
\* the id.
KeyLists ==
    UNION {{keys \in [1..n -> Keys] : \A i \in 1..(n - 1) : keys[i] >= keys[i + 1]}
              : n \in 0..MaxEvents}

\* the value of the field the query does not order by: it plays no part in
\* the fetch, and differs from event to event
OtherKey(i) == (i % MaxKey) + 1

CatalogueOf(keys, orderby) ==
    [i \in 1..Len(keys) |->
        IF TimeOrdered(orderby)
        THEN [time |-> keys[i], mag |-> OtherKey(i)]
        ELSE [time |-> OtherKey(i), mag |-> keys[i]]]

Event(cat, i) == [id |-> i, time |-> cat[i].time, mag |-> cat[i].mag]

Matches(e, q) ==
    /\ q.starttime # None => Val(q.starttime) <= e.time
    /\ q.endtime # None => e.time <= Val(q.endtime)
    /\ q.minmagnitude # None => Val(q.minmagnitude) <= e.mag
    /\ q.maxmagnitude # None => e.mag <= Val(q.maxmagnitude)

Matching(cat, q) == {Event(cat, i) : i \in {j \in 1..Len(cat) : Matches(Event(cat, j), q)}}

\* the value a query's orderby sorts on, larger first
SortKey(e, orderby) ==
    CASE orderby = "time-asc" -> 0 - e.time
      [] orderby = "magnitude" -> e.mag
      [] orderby = "magnitude-asc" -> 0 - e.mag
      [] OTHER -> e.time

Before(e, f, orderby) ==
    \/ SortKey(e, orderby) > SortKey(f, orderby)
    \/ SortKey(e, orderby) = SortKey(f, orderby) /\ e.id <= f.id

RECURSIVE Sorted(_, _)
Sorted(S, orderby) ==
    IF S = {} THEN <<>>
    ELSE LET first == CHOOSE e \in S : \A f \in S : Before(e, f, orderby)
         IN <<first>> \o Sorted(S \ {first}, orderby)

\* the events of one response
ServicePage(cat, q) == Take(Sorted(Matching(cat, q), q.orderby), Val(q.limit))

(***************************************************************************)
(* Response bodies as lines. A header or footer line carries the number of  *)
(* the response it came in; a record line carries the event's id, its time  *)
(* as the service prints it (with the "Z" suffix) and its magnitude.        *)
(***************************************************************************)
Line(kind, page, no, id, time, mag) ==
    [kind |-> kind, page |-> page, no |-> no, id |-> id, time |-> time, mag |-> mag]

NoTime == [iso |-> 0, suffix |-> ""]

EmptyLine == Line("empty", 0, 0, 0, NoTime, 0)

HeaderLines(format, n) ==
    IF format = "xml"
    THEN [i \in 1..3 |-> Line("header", n, i, 0, NoTime, 0)]
    ELSE <<Line("header", n, 1, 0, NoTime, 0)>>

FooterLines(format, n) ==
    IF format = "xml"
    THEN [i \in 1..2 |-> Line("footer", n, i, 0, NoTime, 0)]
    ELSE <<>>

\* a record line cut short: it ends before the event's id
TruncatedLine(e) == Line("truncated", 0, 0, 0, [iso |-> e.time, suffix |-> "Z"], e.mag)

RecordLine(e) == Line("record", 0, 0, e.id, [iso |-> e.time, suffix |-> "Z"], e.mag)

\* the n-th response: 204 with an empty body when nothing matches
ServiceGet(cat, q, n) ==
    LET events == ServicePage(cat, q)
    IN IF events = <<>>
       THEN [status_code |-> 204, lines |-> <<EmptyLine>>]
       ELSE [status_code |-> 200,
             lines |-> HeaderLines(q.format, n)
                          \o [i \in 1..Len(events) |-> RecordLine(events[i])]
                          \o FooterLines(q.format, n)]

(***************************************************************************)
(* Parser (quaker/core/parser.py): CSVParser and XmlParser.                 *)
(***************************************************************************)
ParserHeader(format, lines) ==
    IF format = "xml" THEN Take(lines, 3) ELSE Take(lines, 1)

ParserRecords(format, lines) ==
    IF format = "xml" THEN DropLast(Drop(lines, 3), 2) ELSE Drop(lines, 1)

ParserFooter(format, lines) ==
    IF format = "xml" THEN TakeLast(lines, 2) ELSE <<>>

\* a variant that finds no fault with any line
EventRecordRaisesNever(line) == FALSE

\* event_record raises on a line that lacks a field: record_values[11] is
\* an IndexError in CSVParser, re.search(...)[1] a TypeError in XmlParser
EventRecordRaises(line) == line.kind = "truncated"

\* event_record: (event_id, event_time without its "Z", event_magnitude)
EventRecord(line) == [id |-> line.id, time |-> line.time.iso, mag |-> line.mag]

\* unpack_records: the ids, the times and the magnitudes of the records
UnpackRecords(records) ==
    [ids |-> [i \in 1..Len(records) |-> EventRecord(records[i]).id],
     times |-> [i \in 1..Len(records) |-> EventRecord(records[i]).time],
     mags |-> [i \in 1..Len(records) |-> EventRecord(records[i]).mag]]

(***************************************************************************)
(* GeoJSON (GeojsonParser in quaker/core/parser.py, JsonWriter in           *)
(* quaker/core/writer.py). A line of text is a sequence of tokens: the      *)
(* brackets and the comma the code splits on, and pieces of text in         *)
(* between.                                                                 *)
(***************************************************************************)
Tok(t, id) == [t |-> t, id |-> id]

OpenBracket == Tok("[", 0)

CloseBracket == Tok("]", 0)

Comma == Tok(",", 0)

\* one feature as the service prints it: the properties (with "mag" and
\* "time"), the geometry with its coordinates in brackets, then the "id"
Feature(id) ==
    <<Tok("{properties", id), OpenBracket, Tok("coordinates", id), CloseBracket,
      Tok("id}", id)>>

\* the envelope of the n-th response, before and after the features
EnvelopeOpen(n) == <<Tok("{metadata", n), OpenBracket>>

EnvelopeClose(n) ==
    <<CloseBracket, Tok("bbox", n), OpenBracket, Tok("coordinates", 0), CloseBracket,
      Tok("}", n)>>

\* the body of the n-th response holding the features `ids`: the envelope
\* opens on the first line and closes on the last, one feature to a line
GeojsonLines(n, ids) ==
    IF Len(ids) = 0 THEN <<EnvelopeOpen(n) \o EnvelopeClose(n)>>
    ELSE [i \in 1..Len(ids) |->
            (IF i = 1 THEN EnvelopeOpen(n) ELSE <<>>)
            \o Feature(ids[i])
            \o (IF i = Len(ids) THEN EnvelopeClose(n) ELSE <<Comma>>)]

\* the places of a token in a line
Places(line, tok) == {i \in 1..Len(line) : line[i] = tok}

First(S) == CHOOSE i \in S : \A j \in S : i <= j

\* str.split(sep, 1): one piece when sep does not occur
SplitOnce(line, sep) ==
    IF Places(line, sep) = {} THEN <<line>>
    ELSE <<SubSeq(line, 1, First(Places(line, sep)) - 1),
           SubSeq(line, First(Places(line, sep)) + 1, Len(line))>>

\* str.split(sep)
RECURSIVE Split(_, _)
Split(line, sep) ==
    IF Places(line, sep) = {} THEN <<line>>
    ELSE <<SplitOnce(line, sep)[1]>> \o Split(SplitOnce(line, sep)[2], sep)

\* sep.join(pieces)
RECURSIVE Join(_, _)
Join(pieces, sep) ==
    IF Len(pieces) = 0 THEN <<>>
    ELSE IF Len(pieces) = 1 THEN pieces[1]
    ELSE pieces[1] \o <<sep>> \o Join(Tail(pieces), sep)

\* str.removesuffix(",")
RemoveSuffix(line, tok) ==
    IF Len(line) > 0 /\ line[Len(line)] = tok THEN DropLast(line, 1) ELSE line

\* GeojsonParser.header, GeojsonParser.footer and GeojsonParser.records;
\* [1] on the one piece of a line without "[" raises IndexError
GeojsonHeader(lines) == <<SplitOnce(lines[1], OpenBracket)[1] \o <<OpenBracket>> >>

GeojsonFooter(lines) ==
    << <<CloseBracket>>
       \o RemoveSuffix(Join(Drop(Split(lines[Len(lines)], CloseBracket), 2), CloseBracket),
                       Comma) >>

GeojsonRecordsRaises(lines) == Len(SplitOnce(lines[1], OpenBracket)) < 2

GeojsonRecords(lines) ==
    <<RemoveSuffix(SplitOnce(lines[1], OpenBracket)[2], Comma)>>
    \o (IF Len(lines) > 2
        THEN [i \in 1..(Len(lines) - 2) |-> RemoveSuffix(lines[i + 1], Comma)]
        ELSE <<>>)
    \o <<RemoveSuffix(Join(Take(Split(lines[Len(lines)], CloseBracket), 2), CloseBracket),
                       Comma)>>

\* GeojsonParser.event_record: the first "id" of the line (the time and the
\* magnitude are looked up likewise in the properties); re.search finds
\* none in a line without them, and None[1] raises TypeError
GeojsonEventRecordRaises(line) ==
    \/ {i \in 1..Len(line) : line[i].t = "id}"} = {}
    \/ {i \in 1..Len(line) : line[i].t = "{properties"} = {}

GeojsonEventId(line) == line[First({i \in 1..Len(line) : line[i].t = "id}"})].id

\* "".join(lines)
RECURSIVE Concat(_)
Concat(lines) == IF Len(lines) = 0 THEN <<>> ELSE lines[1] \o Concat(Tail(lines))

\* JsonWriter.__call__: the list of lines handed to write_lines
JsonWriterCall(lines) ==
    IF Len(lines) <= 2 THEN <<Concat(lines)>>
    ELSE LET with_commas ==
                 [i \in 1..Len(lines) |->
                     IF Len(lines) > 3 /\ i \in 2..(Len(lines) - 2)
                     THEN lines[i] \o <<Comma>>
                     ELSE lines[i]]
             with_header == [with_commas EXCEPT ![2] = with_commas[1] \o with_commas[2]]
             with_footer ==
                 [with_header EXCEPT ![Len(lines) - 1] =
                                        with_header[Len(lines) - 1] \o with_header[Len(lines)]]
         IN SubSeq(with_footer, 2, Len(lines) - 1)

(***************************************************************************)
(* RecordFilter.__call__ (quaker/core/record_filter.py)                     *)
(***************************************************************************)
RECURSIVE FilterFrom(_, _, _, _, _)
FilterFrom(c, body, records, event_ids, i) ==
    IF i > Min(Len(records), Len(event_ids))
    THEN [cache |-> c, body |-> body, raised |-> FALSE]
    ELSE IF CacheContains(c, event_ids[i])
    THEN FilterFrom(c, body, records, event_ids, i + 1)
    ELSE IF CacheAppend(c, event_ids[i]).raised
    THEN [cache |-> CacheAppend(c, event_ids[i]).cache, body |-> Append(body, records[i]),
          raised |-> TRUE]
    ELSE FilterFrom(CacheAppend(c, event_ids[i]).cache, Append(body, records[i]),
                    records, event_ids, i + 1)

\* a variant whose filter starts every page with an empty cache
RecordFilterCallFresh(c, records, event_ids) ==
    FilterFrom(CacheNew(<<>>, c.maxlen), <<>>, records, event_ids, 1)

\* a variant that keeps what the cache lacks and does not add it
RecordFilterCallNoAppend(c, records, event_ids) ==
    [cache |-> c,
     body |-> SelectSeq([i \in 1..Min(Len(records), Len(event_ids)) |-> records[i]],
                        LAMBDA r : ~CacheContains(c, r.id)),
     raised |-> FALSE]

RecordFilterCall(c, records, event_ids) == FilterFrom(c, <<>>, records, event_ids, 1)

(***************************************************************************)
(* Client (quaker/core/client.py)                                           *)
(***************************************************************************)
\* Client._check_filtered_results
CheckFilteredResults(records_filtered, records) ==
    LET n_results == Len(records_filtered)
        n_results_raw == Len(records)
    IN ~(n_results = 0) /\ ~(n_results_raw < UPPER_LIMIT)

\* Client._check_valid_magnitude_results
CheckValidMagnitudeResults(q, event_magnitudes) ==
    ~(/\ q.orderby # "none"
      /\ q.orderby \in {"magnitude", "magnitude-asc"}
      /\ Cardinality(Range(event_magnitudes)) = 1)

\* a variant in which the result of _check_filtered_results is kept and the
\* magnitude check is dropped
PageHasNextFilteredOnly(q, records, records_raw, event_magnitudes) ==
    CheckFilteredResults(records, records_raw)

\* has_next_page after lines 118-119: the second assignment replaces the first
PageHasNext(q, records, records_raw, event_magnitudes) ==
    LET first == CheckFilteredResults(records, records_raw)
        second == CheckValidMagnitudeResults(q, event_magnitudes)
    IN second

\* a variant that moves the opposite end of the range
NextFieldSwapped(q, last_time, last_magnitude) ==
    CASE q.orderby = "time-asc" -> [name |-> "endtime", value |-> last_time]
      [] q.orderby = "magnitude" -> [name |-> "minmagnitude", value |-> last_magnitude]
      [] q.orderby = "magnitude-asc" -> [name |-> "maxmagnitude", value |-> last_magnitude]
      [] OTHER -> [name |-> "starttime", value |-> last_time]

\* a variant that hands the magnitude to the time cursors and the time to the
\* magnitude cursors
NextFieldCrossed(q, last_time, last_magnitude) ==
    CASE q.orderby = "time-asc" -> [name |-> "starttime", value |-> last_magnitude]
      [] q.orderby = "magnitude" -> [name |-> "maxmagnitude", value |-> last_time]
      [] q.orderby = "magnitude-asc" -> [name |-> "minmagnitude", value |-> last_time]
      [] OTHER -> [name |-> "endtime", value |-> last_magnitude]

\* the cursor field _next_page sets, and the value it gets
NextField(q, last_time, last_magnitude) ==
    CASE q.orderby = "time-asc" -> [name |-> "starttime", value |-> last_time]
      [] q.orderby = "magnitude" -> [name |-> "maxmagnitude", value |-> last_magnitude]
      [] q.orderby = "magnitude-asc" -> [name |-> "minmagnitude", value |-> last_magnitude]
      [] OTHER -> [name |-> "endtime", value |-> last_time]

\* a variant that carries the remaining limit over and leaves the cursor
\* where it was
NextPageSameCursor(q, last_time, last_magnitude, lim) ==
    [q EXCEPT !.limit = lim]

\* a variant that builds the next Query from the format, the orderby, the
\* cursor and the limit alone
NextPageBare(q, last_time, last_magnitude, lim) ==
    LET next == NextField(q, last_time, last_magnitude)
    IN [NewQuery(q.format, q.orderby, lim) EXCEPT ![next.name] = Some(next.value)]

\* Client._next_page, before Query(**query_dict) validates it
NextPage(q, last_time, last_magnitude, lim) ==
    LET next == NextField(q, last_time, last_magnitude)
    IN [[q EXCEPT ![next.name] = Some(next.value)] EXCEPT !.limit = lim]

\* a variant that sends the caller's limit as it is
CappedLimitAsGiven(lim) ==
    IF lim = None THEN UPPER_LIMIT ELSE Val(lim)

\* `UPPER_LIMIT if limit is None else min(limit, UPPER_LIMIT)`
CappedLimit(lim) ==
    IF lim = None THEN UPPER_LIMIT ELSE Min(Val(lim), UPPER_LIMIT)

\* a variant that counts every page as one record
RemainingLimitByPage(lim, records_raw) ==
    IF lim = None THEN None ELSE Some(Val(lim) - 1)

\* a variant that forgets to count the page
RemainingLimitKept(lim, records_raw) == lim

\* `None if limit is None else limit - len(records_raw)`
RemainingLimit(lim, records_raw) ==
    IF lim = None THEN None ELSE Some(Val(lim) - Len(records_raw))

\* a variant that writes the header of every page
PageOutputEveryHeader(index, header, empty_page, records) ==
    header \o (IF empty_page THEN <<>> ELSE records)

\* the lines one iteration adds to results: the header on the first page
\* only, then the records that survive the filter
PageOutput(index, header, empty_page, records) ==
    (IF index = 0 THEN header ELSE <<>>) \o (IF empty_page THEN <<>> ELSE records)


\* a variant that lets every status but 400 pass
CheckDownloadErrorLenient(status) ==
    IF status = 400 THEN Raise("RuntimeError", "Invalid query", 400) ELSE None

\* Client._check_download_error for a response that is not ok: 204 is ok
\* for requests (status < 400) and never gets here
CheckDownloadError(status) ==
    IF status = 204 THEN None
    ELSE IF status = 400 THEN Raise("RuntimeError", "Invalid query", 400)
    ELSE Raise("RuntimeError", "Unexpected response code on query", status)

\* the query as it is sent: line 90 caps its limit
Sent(q) == [q EXCEPT !.limit = Some(CappedLimit(q.limit))]

\* the caller's Query as execute receives it
PassedQuery(q) == [given |-> q, object |-> q]

\* line 90 assigns to `query.limit`: on the first page `query` is the object
\* the caller passed, later it is a Query made by _next_page
LimitAssigned(caller, q, index) ==
    IF index = 0 THEN [caller EXCEPT !.object = Sent(q)] ELSE caller

\* one iteration of the while loop of _execute_paginiated once _execute has
\* returned `download` (lines 95-127)
ProcessPage(download) ==
    /\ LET this_limit == query.limit
           sent == Sent(query)
           ok == download.status_code < 400
           header == ParserHeader(sent.format, download.lines)
           records_raw == ParserRecords(sent.format, download.lines)
           page_footer == ParserFooter(sent.format, download.lines)
           empty_page == Len(records_raw) = 0
           malformed == \E i \in 1..Len(records_raw) : EventRecordRaises(records_raw[i])
           events == UnpackRecords(records_raw)
           filtered == RecordFilterCall(record_filter, records_raw, events.ids)
           next == IF empty_page THEN FALSE
                   ELSE PageHasNext(sent, filtered.body, records_raw, events.mags)
           following == NextPage(sent, events.times[Len(events.times)],
                                 events.mags[Len(events.mags)],
                                 RemainingLimit(this_limit, records_raw))
       IN /\ history' = IF attempts = 0 THEN Append(history, sent) ELSE history
          /\ attempts' = 0
          /\ IF ~ok /\ CheckDownloadError(download.status_code) # None
             THEN \* _check_download_error raises RuntimeError
                  /\ pc' = "failed"
                  /\ error' = CheckDownloadError(download.status_code)
                  /\ limit' = this_limit
                  /\ UNCHANGED <<query, page_index, has_next_page, results, footer,
                                 record_filter, pages>>
             ELSE /\ pages' = Append(pages, [status_code |-> download.status_code,
                                             header |-> header,
                                             records_raw |-> records_raw,
                                             records |-> IF empty_page \/ malformed
                                                         THEN <<>> ELSE filtered.body,
                                             footer |-> page_footer,
                                             sent |-> sent])
                  /\ footer' = page_footer
                  /\ record_filter' = IF empty_page \/ malformed
                                       THEN record_filter
                                       ELSE filtered.cache
                  /\ IF ~empty_page /\ malformed
                     THEN \* IndexError or TypeError out of unpack_records
                          /\ pc' = "failed"
                          /\ error' = Raise(IF sent.format = "xml"
                                            THEN "TypeError" ELSE "IndexError", "", 0)
                          /\ limit' = this_limit
                          /\ UNCHANGED <<query, page_index, has_next_page, results>>
                     ELSE IF ~empty_page /\ filtered.raised
                     THEN \* KeyError out of Cache.append
                          /\ pc' = "failed"
                          /\ error' = Raise("KeyError", "", 0)
                          /\ limit' = this_limit
                          /\ UNCHANGED <<query, page_index, has_next_page, results>>
                     ELSE /\ results' = results \o PageOutput(page_index, header, empty_page,
                                                              filtered.body)
                          /\ has_next_page' = next
                          /\ IF ~next
                             THEN /\ query' = sent
                                  /\ limit' = this_limit
                                  /\ UNCHANGED <<pc, page_index, error>>
                             ELSE IF QueryValid(following)
                             THEN /\ query' = following
                                  /\ limit' = RemainingLimit(this_limit, records_raw)
                                  /\ page_index' = page_index + 1
                                  /\ UNCHANGED <<pc, error>>
                             ELSE \* Query(**query_dict) fails its assertions
                                  /\ pc' = "failed"
                                  /\ error' = Raise("AssertionError", "", 0)
                                  /\ query' = sent
                                  /\ limit' = RemainingLimit(this_limit, records_raw)
                                  /\ UNCHANGED page_index
    /\ caller_query' = LimitAssigned(caller_query, query, page_index)
    /\ UNCHANGED <<unitVars, catalogue, output_file, sink, output, interrupted>>

\* a variant that goes on whatever the last page held
LoopContinuesWhateverCame == page_index < MAX_PAGES

\* a variant without the page ceiling
LoopContinuesNoCeiling == has_next_page

\* the test of the while loop and the break under it (lines 83-87)
LoopContinues == has_next_page /\ page_index < MAX_PAGES

\* one iteration of the loop against the event service: the guard of the
\* while loop (lines 83-87), _execute, and the rest of the iteration
FetchPage ==
    /\ pc = "loop"
    /\ LoopContinues
    /\ ProcessPage(ServiceGet(catalogue, Sent(query), Len(history) + 1))

\* a variant that returns without appending the footer
ReturnResultsNoFooter ==
    /\ pc = "loop"
    /\ ~LoopContinues
    /\ pc' = "done"
    /\ UNCHANGED <<unitVars, catalogue, query, limit, page_index, has_next_page, results,
                   footer, record_filter, history, pages, caller_query, execVars>>

\* the loop ends (has_next_page is false, or the page ceiling is hit) and
\* the footer of the last page parsed is appended (lines 83-87, 129-132)
ReturnResults ==
    /\ pc = "loop"
    /\ ~LoopContinues
    /\ results' = results \o footer
    /\ pc' = "done"
    /\ UNCHANGED <<unitVars, catalogue, query, limit, page_index, has_next_page, footer,
                   record_filter, history, pages, caller_query, execVars>>

\* a caller's limit: unset, or 1..MaxLimit
Limits == {None} \cup {Some(n) : n \in 1..MaxLimit}

\* no file on disk
NoFile == [exists |-> FALSE, lines |-> <<>>]

\* Client.execute has not been called: _execute_paginiated is looked at on
\* its own
ExecIdle ==
    /\ attempts = 0
    /\ error = None
    /\ output_file = None
    /\ sink = NoFile
    /\ output = None
    /\ interrupted = "no"

\* _execute_paginiated is entered (lines 78-82) with the caller's Query
Init ==
    /\ cache = CacheNew(<<>>, None)
    /\ cacheOp = [op |-> "new", value |-> 0, full |-> FALSE, oldest |-> 0, raised |-> FALSE]
    /\ QueryIdle
    /\ GeoIdle
    /\ RunIdle
    /\ pc = "loop"
    /\ \E format \in Formats, orderby \in OrderBys, caller_limit \in Limits, keys \in KeyLists :
          /\ query = NewQuery(format, orderby, caller_limit)
          /\ caller_query = PassedQuery(NewQuery(format, orderby, caller_limit))
          /\ limit = caller_limit
          /\ catalogue = CatalogueOf(keys, orderby)
    /\ page_index = 0
    /\ has_next_page = TRUE
    /\ results = <<>>
    /\ footer = <<>>
    /\ record_filter = CacheNew(<<>>, Some(UPPER_LIMIT))
    /\ history = <<>>
    /\ pages = <<>>
    /\ ExecIdle

Next == FetchPage \/ ReturnResults

Spec == Init /\ [][Next]_vars

(***************************************************************************)
(* Client.execute as a whole (client.py:32-75), against a server that may   *)
(* answer anything: _execute with its attempts, the loop of                 *)
(* _execute_paginiated, _get_results, _write_results and the Writer         *)
(* (quaker/core/writer.py), with a KeyboardInterrupt arriving at any point. *)
(***************************************************************************)
\* globals.MAX_ATTEMPTS
MAX_ATTEMPTS == 3

\* the status codes the server answers with
Statuses == {200, 204, 400, 404, 500}

\* what a 200 answer holds: as many new events as asked for, the previous
\* page once more, new events that all have one magnitude, one event more
\* than asked for, no event at all, or new events the first of which is on
\* a line cut short
Answers == {"fresh", "repeat", "tied", "over", "empty", "truncated"}

\* the i-th event the server makes up for its n-th answer: ids never seen
\* before, neighbours differing in time and in magnitude
FreshEvent(n, i, tied) ==
    LET id == MaxEvents + (n - 1) * (UPPER_LIMIT + 1) + i
    IN [id |-> id,
        time |-> (id % MaxKey) + 1,
        mag |-> IF tied THEN 1 ELSE ((id + 1) % MaxKey) + 1]

AnswerRecords(kind, q, n) ==
    CASE kind = "fresh" -> [i \in 1..Val(q.limit) |-> RecordLine(FreshEvent(n, i, FALSE))]
      [] kind = "tied" -> [i \in 1..Val(q.limit) |-> RecordLine(FreshEvent(n, i, TRUE))]
      [] kind = "truncated" ->
            [i \in 1..Val(q.limit) |->
                IF i = 1
                THEN TruncatedLine(FreshEvent(n, i, FALSE))
                ELSE RecordLine(FreshEvent(n, i, FALSE))]
      [] kind = "over" -> [i \in 1..(Val(q.limit) + 1) |-> RecordLine(FreshEvent(n, i, FALSE))]
      [] kind = "repeat" -> IF pages = <<>> THEN <<>> ELSE pages[Len(pages)].records_raw
      [] OTHER -> <<>>

\* the response to a GET: a body only with 200
ServerGet(status, kind, q, n) ==
    IF status = 200
    THEN [status_code |-> 200,
          lines |-> HeaderLines(q.format, n) \o AnswerRecords(kind, q, n)
                       \o FooterLines(q.format, n)]
    ELSE [status_code |-> status, lines |-> <<EmptyLine>>]

\* a variant that tries again after every 404, however many there were
GetNotFoundTireless ==
    /\ pc = "loop"
    /\ LoopContinues
    /\ history' = IF attempts = 0 THEN Append(history, Sent(query)) ELSE history
    /\ attempts' = attempts + 1
    /\ caller_query' = LimitAssigned(caller_query, query, page_index)
    /\ UNCHANGED <<unitVars, catalogue, pc, query, limit, page_index, has_next_page, results,
                   footer, record_filter, pages, error, output_file, sink, output, interrupted>>

\* a variant in which _execute_paginiated takes the missing response for the
\* end of the data
GetNotFoundGivesUp ==
    /\ pc = "loop"
    /\ LoopContinues
    /\ attempts < MAX_ATTEMPTS
    /\ history' = IF attempts = 0 THEN Append(history, Sent(query)) ELSE history
    /\ attempts' = attempts + 1
    /\ caller_query' = LimitAssigned(caller_query, query, page_index)
    /\ has_next_page' = (attempts + 1 < MAX_ATTEMPTS)
    /\ UNCHANGED <<unitVars, catalogue, pc, query, limit, page_index, results, footer,
                   record_filter, pages, error, output_file, sink, output, interrupted>>

\* Client._execute: an attempt is answered 404 (lines 202-214); after the
\* last one _execute returns None and `download.ok` (line 96) raises
GetNotFound ==
    /\ pc = "loop"
    /\ LoopContinues
    /\ attempts < MAX_ATTEMPTS
    /\ history' = IF attempts = 0 THEN Append(history, Sent(query)) ELSE history
    /\ attempts' = attempts + 1
    /\ caller_query' = LimitAssigned(caller_query, query, page_index)
    /\ IF attempts + 1 < MAX_ATTEMPTS
       THEN UNCHANGED <<pc, error>>
       ELSE /\ pc' = "failed"
            /\ error' = Raise("AttributeError", "'NoneType' object has no attribute 'ok'", 404)
    /\ UNCHANGED <<unitVars, catalogue, query, limit, page_index, has_next_page, results,
                   footer, record_filter, pages, output_file, sink, output, interrupted>>

\* Client._execute: an attempt is answered with another status, and the
\* iteration goes on with that response (lines 211-212, 95-127)
GetResponse(status, kind) ==
    /\ pc = "loop"
    /\ LoopContinues
    /\ status # 404
    /\ ProcessPage(ServerGet(status, kind, Sent(query), page_index + 1))

\* a KeyboardInterrupt inside _execute_paginiated: _get_results catches it
\* and returns the empty list it started with (lines 44-50)
InterruptFetch ==
    /\ pc = "loop"
    /\ interrupted = "no"
    /\ results' = <<>>
    /\ pc' = "done"
    /\ interrupted' = "fetch"
    /\ \/ UNCHANGED caller_query
       \/ caller_query' = LimitAssigned(caller_query, query, page_index)
    /\ UNCHANGED <<unitVars, catalogue, query, limit, page_index, has_next_page, footer,
                   record_filter, history, pages, attempts, error, output_file, sink, output>>

\* pd.read_csv finds nothing to parse: every line is empty
NoColumns(lines) == \A i \in 1..Len(lines) : lines[i] = EmptyLine

\* Writer._validate_output_file for a path that does not exist: the file is
\* touched (writer.py:31-42)
Touched == [exists |-> TRUE, lines |-> <<>>]

\* how much of `lines` a write that is cut short may have put in the file
PartialLengths(lines) == {0, Len(lines) - 1}

\* what can happen while _write_results runs: nothing, an exception, or a
\* KeyboardInterrupt inside f.writelines, elsewhere inside the try block, or
\* while the Writer is being built
WriteEvents == {"none", "exception", "interrupt_writelines", "interrupt_try",
                "interrupt_writer"}

\* _execute_paginiated has returned (or was interrupted): _write_results and
\* the end of execute (lines 37-42, 52-75), into a DataFrame
WriteMemory(event) ==
    /\ output_file = None
    /\ event \in {"none", "interrupt_try"}
    /\ UNCHANGED sink
    /\ CASE event = "interrupt_try" ->
              \* line 64: logged, nothing to clean up, (None, None) returned
              /\ interrupted = "no"
              /\ interrupted' = "write"
              /\ pc' = "returned"
              /\ UNCHANGED <<output, error>>
         [] event = "none" /\ NoColumns(results) ->
              \* pandas raises EmptyDataError, line 66 keeps it, line 40 raises it
              /\ pc' = "failed"
              /\ error' = Raise("EmptyDataError", "No columns to parse from file", 0)
              /\ UNCHANGED <<output, interrupted>>
         [] OTHER ->
              /\ pc' = "returned"
              /\ output' = Some(results)
              /\ UNCHANGED <<error, interrupted>>

\* the same into a new file: Writer(output_file, query) touches it, then
\* Writer.write_lines appends the lines (writer.py:49-68)
WriteFile(event, n) ==
    /\ output_file # None
    /\ n \in PartialLengths(results)
    /\ UNCHANGED output
    /\ \/ \* line 55 is outside the try: the interrupt reaches the caller,
          \* with the file touched or not
          /\ event = "interrupt_writer"
          /\ n = 0
          /\ interrupted = "no"
          /\ interrupted' = "write"
          /\ pc' = "failed"
          /\ error' = Raise("KeyboardInterrupt", "", 0)
          /\ sink' \in {NoFile, Touched}
       \/ \* line 64, then cleanup_output removes the file; (None, None)
          /\ event = "interrupt_try"
          /\ n = 0
          /\ interrupted = "no"
          /\ interrupted' = "write"
          /\ pc' = "returned"
          /\ sink' = NoFile
          /\ UNCHANGED error
       \/ \* writer.py:58: logged and dropped, write_lines returns
          /\ event = "interrupt_writelines"
          /\ results # <<>>
          /\ interrupted = "no"
          /\ interrupted' = "write"
          /\ pc' = "returned"
          /\ sink' = [exists |-> TRUE, lines |-> Take(results, n)]
          /\ UNCHANGED error
       \/ \* writer.py:60-65 raises it again, line 66 keeps it,
          \* cleanup_output removes the file, line 40 raises it
          /\ event = "exception"
          /\ results # <<>>
          /\ pc' = "failed"
          /\ error' = Raise("OSError", "", 0)
          /\ sink' = NoFile
          /\ UNCHANGED interrupted
       \/ \* an empty list of lines is not written (writer.py:50-52)
          /\ event = "none"
          /\ n = 0
          /\ pc' = "returned"
          /\ sink' = [exists |-> TRUE, lines |-> results]
          /\ UNCHANGED <<error, interrupted>>

WriteResults(event, n) ==
    /\ pc = "done"
    /\ \/ WriteMemory(event) /\ n = 0
       \/ WriteFile(event, n)
    /\ UNCHANGED <<unitVars, catalogue, query, limit, page_index, has_next_page, results,
                   footer, record_filter, history, pages, caller_query, attempts,
                   output_file>>

\* Client.execute is called: without an output file the format is set to
\* csv (lines 33-34)
InitExec ==
    /\ cache = CacheNew(<<>>, None)
    /\ cacheOp = [op |-> "new", value |-> 0, full |-> FALSE, oldest |-> 0, raised |-> FALSE]
    /\ QueryIdle
    /\ GeoIdle
    /\ RunIdle
    /\ pc = "loop"
    /\ catalogue = <<>>
    /\ \E format \in Formats, orderby \in OrderBys, caller_limit \in Limits,
          file \in {None, Some("new")} :
          /\ output_file = file
          /\ query = NewQuery(IF file = None THEN "csv" ELSE format, orderby, caller_limit)
          /\ caller_query = [given |-> NewQuery(format, orderby, caller_limit),
                             object |-> NewQuery(IF file = None THEN "csv" ELSE format,
                                                 orderby, caller_limit)]
          /\ limit = caller_limit
    /\ page_index = 0
    /\ has_next_page = TRUE
    /\ results = <<>>
    /\ footer = <<>>
    /\ record_filter = CacheNew(<<>>, Some(UPPER_LIMIT))
    /\ history = <<>>
    /\ pages = <<>>
    /\ attempts = 0
    /\ error = None
    /\ sink = NoFile
    /\ output = None
    /\ interrupted = "no"

NextExec ==
    \/ GetNotFound
    \/ \E status \in Statuses, kind \in Answers : GetResponse(status, kind)
    \/ ReturnResults
    \/ InterruptFetch
    \/ \E event \in WriteEvents, n \in 0..(UPPER_LIMIT * MAX_PAGES + 5) : WriteResults(event, n)

SpecExec == InitExec /\ [][NextExec]_vars

(***************************************************************************)
(* Properties of the paginated fetch.                                       *)
(***************************************************************************)
Last(s) == s[Len(s)]

\* page k was the last one: no request followed it and no next query was
\* derived from it
StoppedAfter(k) ==
    /\ k = Len(pages)
    /\ Len(history) = k
    /\ ~has_next_page
    /\ query = pages[k].sent

MagnitudeOrdered == query.orderby \in {"magnitude", "magnitude-asc"}

PageMagnitudes(k) == Range(UnpackRecords(pages[k].records_raw).mags)

\* C2: a page with fewer raw records than the per-request cap is the last
\* page: no next query is derived and no further request is issued.
C2_ShortPageStops ==
    \A k \in 1..Len(pages) :
        Len(pages[k].records_raw) < UPPER_LIMIT => StoppedAfter(k)

\* C3: a page on which removing duplicates leaves no surviving record is the
\* last page: no next query is derived and no further request is issued.
C3_NoSurvivorStops ==
    \A k \in 1..Len(pages) :
        (pages[k].records_raw # <<>> /\ pages[k].records = <<>>) => StoppedAfter(k)

\* C4: under a magnitude ordering, a page whose records all have the same
\* magnitude is the last page, cap-sized or not: no request follows, nothing
\* is raised, and the result ends with that page's surviving records
\* followed by the footer.
C4_MagnitudeTieStops ==
    \A k \in 1..Len(pages) :
        (MagnitudeOrdered /\ Cardinality(PageMagnitudes(k)) = 1) =>
            /\ StoppedAfter(k)
            /\ pc # "failed"
            /\ pc = "loop" => TakeLast(results, Len(pages[k].records)) = pages[k].records
            /\ pc = "done" =>
                  TakeLast(results, Len(pages[k].records) + Len(pages[k].footer))
                      = pages[k].records \o pages[k].footer

\* a cap-sized page of one magnitude with a surviving record ended the fetch
C4_Witness ==
    /\ pc = "done"
    /\ MagnitudeOrdered
    /\ \E k \in 1..Len(pages) :
          /\ Len(pages[k].records_raw) = UPPER_LIMIT
          /\ Cardinality(PageMagnitudes(k)) = 1
          /\ pages[k].records # <<>>
          /\ pages[k].footer # <<>>

Ids(lines) == [i \in 1..Len(lines) |-> EventRecord(lines[i]).id]

IsRecord(line) == line.kind = "record"

\* the event ids of the records in the result, in order
ResultIds == Ids(SelectSeq(results, IsRecord))

Count(s, x) == Cardinality({i \in 1..Len(s) : s[i] = x})

\* the largest number of events that share one value of the ordering field
MaxTies ==
    IF catalogue = <<>> THEN 0
    ELSE LET n(i) == Cardinality({j \in 1..Len(catalogue) :
                         SortKey(Event(catalogue, j), query.orderby)
                             = SortKey(Event(catalogue, i), query.orderby)})
         IN CHOOSE m \in {n(i) : i \in 1..Len(catalogue)} :
                \A i \in 1..Len(catalogue) : n(i) <= m

\* MAX_PAGES pages are enough for the catalogue: the first page brings
\* UPPER_LIMIT events, and each later page at least UPPER_LIMIT - MaxTies new
\* ones, the rest being events tied at the cursor value that it repeats
WithinCeiling ==
    Len(catalogue) <= UPPER_LIMIT + (MAX_PAGES - 1) * (UPPER_LIMIT - MaxTies)

\* C1 as stated: whatever the catalogue, a fetch with no caller limit ends
\* with every event of the catalogue in the result exactly once.
C1_EveryEventOnce ==
    (pc = "done" /\ limit = None) =>
        \A i \in 1..Len(catalogue) : Count(ResultIds, i) = 1

\* C1 as amended: no event is ever in the result twice; and when the caller
\* set no limit, fewer than UPPER_LIMIT events share any one value of the
\* ordering field, and the catalogue is small enough to be fetched in
\* MAX_PAGES pages, every event of the catalogue is in the result exactly once.
C1_EveryEventOnceUnlessTied ==
    /\ \A i \in 1..Len(catalogue) : Count(ResultIds, i) <= 1
    /\ (pc = "done" /\ limit = None /\ MaxTies < UPPER_LIMIT /\ WithinCeiling) =>
          \A i \in 1..Len(catalogue) : Count(ResultIds, i) = 1

\* a finished fetch of several pages, whose second page began with two
\* events tied at the cursor value, one of them already seen on page one
C1_Witness ==
    /\ pc = "done"
    /\ limit = None
    /\ MaxTies < UPPER_LIMIT
    /\ MaxTies > 1
    /\ WithinCeiling
    /\ Len(pages) >= 3
    /\ Len(catalogue) > UPPER_LIMIT
    /\ Len(pages[2].records) < Len(pages[2].records_raw)
    /\ pages[2].records # <<>>
    /\ EventRecord(pages[2].records[1]).time = EventRecord(Last(pages[1].records_raw)).time
    /\ TimeOrdered(query.orderby)

PageIds(k) == Range(Ids(pages[k].records_raw))

\* the first occurrence of every event of a sequence of record lines
RECURSIVE KeepFirst(_)
KeepFirst(lines) ==
    IF lines = <<>> THEN <<>>
    ELSE LET front == KeepFirst(DropLast(lines, 1))
         IN IF EventRecord(Last(lines)).id \in Range(Ids(front))
            THEN front
            ELSE Append(front, Last(lines))

KindCount(lines, kind) == Cardinality({i \in 1..Len(lines) : lines[i].kind = kind})

\* three 200 pages of sizes cap, cap and less than cap, consecutive pages
\* sharing exactly one event
ThreePages ==
    /\ Len(pages) >= 3
    /\ \A k \in 1..3 : pages[k].status_code = 200
    /\ Len(pages[1].records_raw) = UPPER_LIMIT
    /\ Len(pages[2].records_raw) = UPPER_LIMIT
    /\ Len(pages[3].records_raw) \in 1..(UPPER_LIMIT - 1)
    /\ Cardinality(PageIds(1) \cap PageIds(2)) = 1
    /\ Cardinality(PageIds(2) \cap PageIds(3)) = 1

ThreePagesRaw == pages[1].records_raw \o pages[2].records_raw \o pages[3].records_raw

\* C5: a CSV fetch answered by three 200 pages of sizes cap, cap and less
\* than cap, consecutive pages sharing exactly one event, returns the header
\* line of page 1 once, then every distinct event once in page order (the
\* raw rows less two), and no footer line.
C5_ThreePagesMerged ==
    (pc = "done" /\ query.format = "csv" /\ ThreePages) =>
        /\ results = pages[1].header \o KeepFirst(ThreePagesRaw)
        /\ KindCount(results, "header") = 1
        /\ KindCount(results, "footer") = 0
        /\ KindCount(results, "empty") = 0
        /\ KindCount(results, "record") = Len(ThreePagesRaw) - 2
        /\ \A id \in Range(Ids(ThreePagesRaw)) : Count(ResultIds, id) = 1

\* a finished three-page CSV fetch whose third page brought a new event
C5_Witness ==
    /\ pc = "done"
    /\ query.format = "csv"
    /\ ThreePages
    /\ Len(pages[3].records_raw) >= 2
    /\ pages[3].records # <<>>
    /\ Len(ResultIds) = Len(ThreePagesRaw) - 2

\* the surviving records of pages 1..k, in page order
RECURSIVE Body(_)
Body(k) == IF k = 0 THEN <<>> ELSE Body(k - 1) \o pages[k].records

FirstHeader == IF pages = <<>> THEN <<>> ELSE pages[1].header

\* C6: the result starts with the header lines of the first page, once; the
\* footer lines are those of the last page fetched, once, at the end, and
\* are there only when the loop has ended; between them are the surviving
\* records; no header or footer line of another page is in the result.
C6_HeaderFooterOnce ==
    /\ pc = "loop" => results = FirstHeader \o Body(Len(pages))
    /\ (pc = "done" /\ pages # <<>>) =>
          results = pages[1].header \o Body(Len(pages)) \o Last(pages).footer
    /\ \A i \in 1..Len(results) :
          /\ results[i].kind = "header" =>
                /\ results[i].page = 1
                /\ i = results[i].no
                /\ Count(results, results[i]) = 1
          /\ results[i].kind = "footer" =>
                /\ pc = "done"
                /\ results[i].page = Len(pages)
                /\ i = Len(results) - Len(Last(pages).footer) + results[i].no
                /\ Count(results, results[i]) = 1
          /\ results[i].kind = "record" =>
                /\ i > Len(FirstHeader)
                /\ pc = "done" => i <= Len(results) - Len(Last(pages).footer)

\* a finished XML fetch of several pages, each with its own header and footer
C6_Witness ==
    /\ pc = "done"
    /\ query.format = "xml"
    /\ Len(pages) >= 2
    /\ \A k \in 1..Len(pages) : pages[k].status_code = 200 /\ pages[k].footer # <<>>
    /\ pages[2].records # <<>>
    /\ KindCount(results, "header") = 3
    /\ KindCount(results, "footer") = 2

\* C7: an event that is on two adjacent pages is in the result exactly once:
\* the one filter of the fetch remembers the first page when it reads the
\* second.
C7_BoundaryRecordOnce ==
    \A k \in 1..(Len(pages) - 1) :
        \A id \in PageIds(k) \cap PageIds(k + 1) : Count(ResultIds, id) = 1

\* two adjacent pages share an event, and the second one also brought new ones
C7_Witness ==
    /\ Len(pages) >= 2
    /\ PageIds(1) \cap PageIds(2) # {}
    /\ pages[2].records # <<>>
    /\ Len(pages[2].records) < Len(pages[2].records_raw)

\* a next query was derived from page k
Derived(k) == k < Len(history) \/ (k = Len(pages) /\ has_next_page)

\* the query derived from page k
NextOf(k) == IF k < Len(history) THEN history[k + 1] ELSE query

CursorFields == {"starttime", "endtime", "minmagnitude", "maxmagnitude"}

\* the cursor field each ordering mode moves
CursorFieldOf(orderby) ==
    CASE orderby \in {"none", "time"} -> "endtime"
      [] orderby = "time-asc" -> "starttime"
      [] orderby = "magnitude" -> "maxmagnitude"
      [] orderby = "magnitude-asc" -> "minmagnitude"

\* the value of the ordering field of a record line
CursorValueOf(orderby, line) ==
    IF orderby \in {"magnitude", "magnitude-asc"}
    THEN EventRecord(line).mag
    ELSE EventRecord(line).time

\* C9: the query derived from a page differs from the query of that page in
\* one cursor field, the one its orderby selects (endtime for time and for
\* no orderby, starttime for time-asc, maxmagnitude for magnitude,
\* minmagnitude for magnitude-asc), which holds the time (time orderings) or
\* the magnitude (magnitude orderings) of the page's last record.
C9_OneCursorFieldAdvances ==
    \A k \in 1..Len(pages) :
        Derived(k) =>
            LET prev == pages[k].sent
                field == CursorFieldOf(prev.orderby)
            IN /\ NextOf(k)[field]
                     = Some(CursorValueOf(prev.orderby, Last(pages[k].records_raw)))
               /\ \A f \in CursorFields \ {field} : NextOf(k)[f] = prev[f]
               /\ NextOf(k).orderby = prev.orderby
               /\ NextOf(k).format = prev.format

\* a second request went out with its cursor moved to a value that the other
\* field of the last record does not have
C9_Witness ==
    /\ Len(history) >= 2
    /\ query.orderby \in {"time-asc", "magnitude"}
    /\ EventRecord(Last(pages[1].records_raw)).time
           # EventRecord(Last(pages[1].records_raw)).mag
    /\ history[2][CursorFieldOf(query.orderby)] # None
    /\ pages[2].records # <<>>

\* C10: whenever a next query is derived from a page, its cursor value is
\* the time or magnitude of the last record of that page that survived the
\* filter.
C10_CursorFromLastSurvivor ==
    \A k \in 1..Len(pages) :
        Derived(k) =>
            /\ pages[k].records # <<>>
            /\ NextOf(k)[CursorFieldOf(pages[k].sent.orderby)]
                   = Some(CursorValueOf(pages[k].sent.orderby, Last(pages[k].records)))

\* C11: when a next query is derived from a page, its limit is the limit the
\* query had before the page less the number of raw records of the page,
\* and stays unset when the caller set none.
C11_RemainingLimit ==
    [][(pc = "loop" /\ pc' = "loop" /\ Len(pages') = Len(pages) + 1 /\ has_next_page') =>
          /\ query.limit = None => query'.limit = None
          /\ query.limit # None =>
                query'.limit = Some(Val(query.limit) - Len(Last(pages').records_raw))]_vars

\* a caller's limit above the cap: the second query carries what the first
\* page left of it
C11_Witness ==
    /\ Len(pages) >= 1
    /\ Len(history) = 1
    /\ has_next_page
    /\ Len(pages[1].records_raw) = UPPER_LIMIT
    /\ pages[1].records # <<>>
    /\ query.limit # None
    /\ Val(query.limit) >= 1
    /\ pages[1].sent.limit = Some(UPPER_LIMIT)

\* the requests of the fetch and the query in hand, in order
Requests == IF has_next_page /\ pc = "loop" THEN Append(history, query) ELSE history

\* C12: from one request to the next the cursor never moves backwards:
\* endtime does not grow under time (and no orderby), starttime does not
\* shrink under time-asc, maxmagnitude does not grow under magnitude,
\* minmagnitude does not shrink under magnitude-asc; and once set, a cursor
\* stays set.
C12_CursorMonotone ==
    \A k \in 1..(Len(Requests) - 1) :
        LET prev == Requests[k]
            next == Requests[k + 1]
            field == CursorFieldOf(prev.orderby)
        IN /\ next[field] # None
           /\ prev[field] # None =>
                 IF field \in {"endtime", "maxmagnitude"}
                 THEN Val(next[field]) <= Val(prev[field])
                 ELSE Val(next[field]) >= Val(prev[field])

\* three requests whose cursor moved strictly between the second and third
C12_Witness ==
    /\ Len(history) >= 3
    /\ \E field \in CursorFields :
          /\ history[2][field] # None
          /\ history[3][field] # None
          /\ history[3][field] # history[2][field]

\* C13: every request carries a limit, and it is at most UPPER_LIMIT.
C13_RequestLimitCapped ==
    \A k \in 1..Len(history) :
        /\ history[k].limit # None
        /\ Val(history[k].limit) <= UPPER_LIMIT

\* requests went out for a caller's limit above the cap, and the second one
\* asked for what was left
C13_Witness ==
    /\ Len(history) >= 2
    /\ history[1].limit = Some(UPPER_LIMIT)
    /\ history[2].limit # None
    /\ Val(history[2].limit) \in 1..(UPPER_LIMIT - 1)
    /\ limit # None

(***************************************************************************)
(* Properties of Client.execute.                                            *)
(***************************************************************************)
\* execute has raised `type`
RaisedError(type) == pc = "failed" /\ error # None /\ Val(error).type = type

\* C14: when MAX_ATTEMPTS attempts for a page were all answered 404, execute
\* raises an error: it returns nothing, and writes no file.
C14_NotFoundFails ==
    attempts = MAX_ATTEMPTS =>
        /\ pc = "failed"
        /\ error # None
        /\ output = None
        /\ ~sink.exists

\* the attempts ran out on a later page, with records of earlier pages in hand
C14_Witness ==
    /\ attempts = MAX_ATTEMPTS
    /\ pc = "failed"
    /\ Len(pages) >= 1
    /\ Len(history) = Len(pages) + 1
    /\ SelectSeq(results, IsRecord) # <<>>

\* C15: a 204 answer ends the fetch and is no error: nothing of its body is
\* parsed, no request follows it, and execute does not raise on its account
\* (a failure of the write itself apart).
C15_NoContentIsDone ==
    \A k \in 1..Len(pages) :
        pages[k].status_code = 204 =>
            /\ k = Len(pages)
            /\ Len(history) = k
            /\ ~has_next_page
            /\ pages[k].header = <<>>
            /\ pages[k].footer = <<>>
            /\ pc = "failed" => Val(error).type \in {"OSError", "KeyboardInterrupt"}

\* C16: an answer of 400, or of another status that is not a success and
\* not 404, makes execute raise; the error for 400 says the query is
\* invalid, the error for any other status says the status is unexpected
\* and names it; nothing is returned or written.
C16_BadStatusFails ==
    [][\A status \in {st \in Statuses : st >= 400 /\ st # 404} :
          (\E kind \in Answers : GetResponse(status, kind)) =>
              /\ pc' = "failed"
              /\ error' = Some([type |-> "RuntimeError",
                                msg |-> IF status = 400 THEN "Invalid query"
                                        ELSE "Unexpected response code on query",
                                status |-> status])
              /\ output' = None
              /\ ~sink'.exists]_vars

\* a later page was answered 500, and execute raised
C16_Witness ==
    /\ RaisedError("RuntimeError")
    /\ Val(error).status = 500
    /\ Val(error).msg # "Invalid query"
    /\ Len(pages) >= 1
    /\ Len(history) = Len(pages) + 1

\* C17: when the request for page k+1 goes out, the file already holds the
\* header and the surviving records of pages 1..k.
C17_WrittenThrough ==
    (output_file # None /\ Len(history) >= 2) =>
        /\ sink.exists
        /\ Len(sink.lines) >= Len(FirstHeader \o Body(Len(history) - 1))
        /\ Take(sink.lines, Len(FirstHeader \o Body(Len(history) - 1)))
               = FirstHeader \o Body(Len(history) - 1)

\* C18: a call with a new output file either returns with the complete
\* output in the file (header, surviving records, footer), or raises with
\* no file left.
C18_CompleteOrRemoved ==
    output_file # None =>
        /\ pc = "returned" =>
              /\ sink.exists
              /\ pages # <<>>
              /\ sink.lines = pages[1].header \o Body(Len(pages)) \o Last(pages).footer
        /\ pc = "failed" => ~sink.exists

\* C19: after a KeyboardInterrupt, execute does not return normally: it
\* raises the interrupt.
C19_InterruptReraised ==
    (interrupted # "no" /\ pc \in {"returned", "failed"}) => RaisedError("KeyboardInterrupt")

\* C20: whatever the server answers, no more than MAX_PAGES pages are
\* requested; at the ceiling the loop can only end, and it ends with the
\* footer appended and the result returned, nothing raised.
C20_PageCeiling ==
    /\ Len(history) <= MAX_PAGES
    /\ Len(pages) <= MAX_PAGES
    /\ page_index <= MAX_PAGES
    /\ attempts <= MAX_ATTEMPTS
    /\ (pc = "loop" /\ has_next_page /\ page_index = MAX_PAGES) =>
          /\ ENABLED ReturnResults
          /\ ~ENABLED GetNotFound
          /\ ~ENABLED (\E status \in Statuses, kind \in Answers : GetResponse(status, kind))
    /\ (pc = "done" /\ has_next_page /\ interrupted = "no") =>
          /\ page_index = MAX_PAGES
          /\ Len(history) = MAX_PAGES
          /\ error = None
          /\ results = pages[1].header \o Body(Len(pages)) \o Last(pages).footer

\* MAX_PAGES full pages of new events came in, and the fetch returned
C20_Witness ==
    /\ pc = "returned"
    /\ has_next_page
    /\ interrupted = "no"
    /\ limit = None
    /\ Len(history) = MAX_PAGES
    /\ Len(SelectSeq(results, IsRecord)) = MAX_PAGES * UPPER_LIMIT
    /\ sink.lines = results

\* C27: when a page holds a record line that lacks a field, the error of
\* event_record leaves Client.execute: the fetch has failed with it, nothing
\* was returned and no file was written.
C27_MalformedSurfaced ==
    \A k \in 1..Len(pages) :
        (\E i \in 1..Len(pages[k].records_raw) : pages[k].records_raw[i].kind = "truncated") =>
            /\ k = Len(pages)
            /\ RaisedError("IndexError") \/ RaisedError("TypeError")
            /\ output = None
            /\ sink = NoFile

\* the second page holds the line, after a first page that was merged
C27_Witness ==
    /\ Len(pages) = 2
    /\ pages[1].records # <<>>
    /\ Len(pages[2].records_raw) >= 2
    /\ pages[2].records_raw[1].kind = "truncated"
    /\ RaisedError("IndexError")

\* C28: Client.execute never modifies the Query the caller passed: every
\* field of that object, `limit` and `format` included, keeps the value it
\* had before the call.
C28_CallerQueryUntouched == caller_query.object = caller_query.given

\* C29: a page without raw records is the last one: no next query is
\* derived from it, no request follows it, it adds no record to the result,
\* and the result then ends with its footer, once.
C29_EmptyPageStops ==
    \A k \in 1..Len(pages) :
        pages[k].records_raw = <<>> =>
            /\ k = Len(pages)
            /\ Len(history) = k
            /\ ~has_next_page
            /\ query = pages[k].sent
            /\ pages[k].records = <<>>
            /\ pc = "loop" => results = pages[1].header \o Body(k - 1)
            /\ (pc # "loop" /\ interrupted # "fetch") =>
                  results = pages[1].header \o Body(k - 1) \o pages[k].footer

\* a second page that is a success without records, after a page of records
C29_Witness ==
    /\ pc = "done"
    /\ interrupted = "no"
    /\ query.format = "xml"
    /\ Len(pages) = 2
    /\ pages[1].records # <<>>
    /\ pages[2].status_code = 200
    /\ pages[2].records_raw = <<>>
    /\ KindCount(results, "footer") = Len(pages[2].footer)
    /\ KindCount(results, "footer") = 2

\* C33: for each page _execute makes at most MAX_ATTEMPTS GET requests, one
\* at a time; another attempt for the page follows a 404 only, and the first
\* response with another status is taken (the page is processed or the
\* fetch fails on it) with no further attempt for that page.
C33_BoundedRetry ==
    [][/\ attempts' <= MAX_ATTEMPTS
       /\ attempts' # attempts =>
             \/ /\ attempts' = attempts + 1
                /\ pages' = pages
                /\ page_index' = page_index
                /\ Len(history') = Len(history) + (IF attempts = 0 THEN 1 ELSE 0)
             \/ /\ attempts' = 0
                /\ Len(pages') = Len(pages) + 1 \/ pc' = "failed"
       /\ Len(pages') > Len(pages) => attempts' = 0
       /\ Len(history') <= Len(history) + 1]_vars

\* the second page was answered 404 twice, the first page is in hand
C33_Witness ==
    /\ Len(pages) = 1
    /\ Len(history) = 2
    /\ attempts = MAX_ATTEMPTS - 1
    /\ pc = "loop"

\* the number of raw records received over the pages
RECURSIVE RawCount(_)
RawCount(ps) == IF ps = <<>> THEN 0 ELSE Len(ps[1].records_raw) + RawCount(Tail(ps))

\* no response held more records than the limit of its request
LimitHonoured ==
    \A k \in 1..Len(pages) : Len(pages[k].records_raw) <= Val(pages[k].sent.limit)

\* C36: when the caller gives a limit L and no response holds more records
\* than the limit of its request, the remaining limit (the one kept by the
\* loop, the one of the Query derived for the next page and the one of
\* every request) is never negative, and the raw records received over all
\* pages are at most L.
C36_LimitNeverExceeded ==
    (caller_query.given.limit # None /\ LimitHonoured) =>
        /\ limit # None /\ Val(limit) >= 0
        /\ query.limit # None /\ Val(query.limit) >= 0
        /\ \A k \in 1..Len(history) : Val(history[k].limit) >= 0
        /\ RawCount(pages) <= Val(caller_query.given.limit)

\* a caller's limit above the cap was used up over two pages, and the Query
\* derived next carries a remaining limit of 0
C36_Witness ==
    /\ caller_query.given.limit = Some(UPPER_LIMIT + 1)
    /\ LimitHonoured
    /\ Len(pages) = 2
    /\ RawCount(pages) = UPPER_LIMIT + 1
    /\ has_next_page
    /\ query.limit = Some(0)

(***************************************************************************)
(* The Cache on its own: built from any sequence, then appended to.         *)
(***************************************************************************)
Values == 1..MaxValue

NoOp == [op |-> "new", value |-> 0, full |-> FALSE, oldest |-> 0, raised |-> FALSE]

ClientIdle ==
    /\ pc = "idle"
    /\ catalogue = <<>>
    /\ query = NewQuery("csv", "none", None)
    /\ caller_query = PassedQuery(NewQuery("csv", "none", None))
    /\ limit = None
    /\ page_index = 0
    /\ has_next_page = FALSE
    /\ results = <<>>
    /\ footer = <<>>
    /\ record_filter = CacheNew(<<>>, None)
    /\ history = <<>>
    /\ pages = <<>>
    /\ ExecIdle

InitCache ==
    /\ \E items \in SeqsUpTo(Values, MaxLen), maxlen \in {None} \cup {Some(n) : n \in 0..MaxLen} :
          cache = CacheNew(items, maxlen)
    /\ cacheOp = NoOp
    /\ QueryIdle
    /\ GeoIdle
    /\ RunIdle
    /\ ClientIdle

CacheAppendCall(value) ==
    /\ pc = "idle"
    /\ Len(cache.stash) < MaxStash
    /\ cache' = CacheAppend(cache, value).cache
    /\ cacheOp' = [op |-> "append",
                   value |-> value,
                   full |-> CacheIsFull(cache),
                   oldest |-> IF cache.stash = <<>> THEN 0 ELSE Head(cache.stash),
                   raised |-> CacheAppend(cache, value).raised]
    /\ UNCHANGED <<clientVars, queryVars, geoVars, runVars>>

\* Cache.pop (record_filter.py:26-29): deque.pop raises IndexError on an
\* empty stash; set.remove raises KeyError on a value the registry lacks,
\* after the stash has given it up
CachePop(c) ==
    IF c.stash = <<>>
    THEN [cache |-> c, value |-> 0, raised |-> TRUE]
    ELSE IF Last(c.stash) \notin c.registry
    THEN [cache |-> [c EXCEPT !.stash = DropLast(c.stash, 1)], value |-> 0, raised |-> TRUE]
    ELSE [cache |-> [c EXCEPT !.stash = DropLast(c.stash, 1),
                              !.registry = c.registry \ {Last(c.stash)}],
          value |-> Last(c.stash),
          raised |-> FALSE]

CachePopCall ==
    /\ pc = "idle"
    /\ cache' = CachePop(cache).cache
    /\ cacheOp' = [op |-> "pop",
                   value |-> CachePop(cache).value,
                   full |-> CacheIsFull(cache),
                   oldest |-> IF cache.stash = <<>> THEN 0 ELSE Head(cache.stash),
                   raised |-> CachePop(cache).raised]
    /\ UNCHANGED <<clientVars, queryVars, geoVars, runVars>>

NextCache ==
    \/ \E value \in Values : CacheAppendCall(value)
    \/ CachePopCall

SpecCache == InitCache /\ [][NextCache]_vars

\* C8: a cache built with a maxlen never holds more than maxlen entries, and
\* an append to a full cache evicts exactly the oldest entry: the call
\* completes, the evicted value is no longer a member unless it is the value
\* just appended, and the new value is a member.
C8_CacheBoundedFifo ==
    cache.maxlen # None =>
        /\ Len(cache.stash) <= Val(cache.maxlen)
        /\ (cacheOp.op = "append" /\ cacheOp.full) =>
              /\ ~cacheOp.raised
              /\ cacheOp.value \in cache.registry
              /\ CacheContains(cache, cacheOp.value)
              /\ (cacheOp.oldest # cacheOp.value => ~CacheContains(cache, cacheOp.oldest))

\* C34: whatever a Cache was built from and whatever appends and pops were
\* made (appends of values already held included), no call raises (a pop
\* from an empty cache set aside), the registry is the set of the values in
\* the stash, so that `x in cache` tells whether x is in the stash, and pop
\* returns the value appended last.
C34_MembershipIsContents ==
    [][(cacheVars' # cacheVars /\ ~(cacheOp'.op = "pop" /\ cache.stash = <<>>)) =>
          /\ ~cacheOp'.raised
          /\ cache'.registry = Range(cache'.stash)
          /\ \A x \in Values : CacheContains(cache', x) <=> x \in Range(cache'.stash)
          /\ cacheOp'.op = "pop" => cacheOp'.value = Last(cache.stash)]_vars

(***************************************************************************)
(* Query on its own: built from up to two keyword arguments, then turned    *)
(* into a dict and handed to Parser.                                        *)
(***************************************************************************)
\* the values given lie on the bounds of a field, between them, and Beyond
\* outside them
Around(lo, hi) == {lo - Beyond, lo, (lo + hi) \div 2, hi, hi + Beyond}

FieldValues(name) ==
    CASE name = "format" -> {"csv", "text", "geojson", "xml", "quakeml", "kml", "json"}
      [] name = "orderby" -> {"time", "time-asc", "magnitude", "magnitude-asc", "depth"}
      [] name = "includedeleted" -> {"true", "false", "only", "all"}
      [] name = "includesuperceded" -> BOOLEAN
      [] name \in {"latitude", "minlatitude", "maxlatitude"} -> Around(-90, 90)
      [] name \in {"minlongitude", "maxlongitude"} -> Around(-360, 360)
      [] name = "longitude" -> Around(-180, 180)
      [] name \in {"minmagnitude", "maxmagnitude", "mincdi", "maxcdi"} -> Around(0, 12)
      [] name \in {"mingap", "maxgap"} -> Around(0, 360)
      [] name = "maxradius" -> Around(0, 180)
      [] name = "maxradiuskm" -> Around(0, 200016)
      [] name = "offset" -> {1 - Beyond, 1, 1 + Beyond}
      [] OTHER -> {0 - Beyond, 0, Beyond}

ClientAndCacheIdle ==
    /\ cache = CacheNew(<<>>, None)
    /\ cacheOp = NoOp
    /\ ClientIdle

InitQuery ==
    /\ \E name1 \in QueryFields, name2 \in QueryFields :
          \E value1 \in {None} \cup {Some(v) : v \in FieldValues(name1)},
             value2 \in {None} \cup {Some(v) : v \in FieldValues(name2)} :
             kwargs = [name \in QueryFields |->
                          IF name = name1 THEN value1
                          ELSE IF name = name2 THEN value2
                          ELSE None]
    /\ constructed = None
    /\ query_dict = None
    /\ parser = None
    /\ GeoIdle
    /\ RunIdle
    /\ ClientAndCacheIdle

\* Query construction from the keyword arguments
Construct ==
    /\ constructed = None
    /\ constructed' = Some(QueryNew(kwargs))
    /\ UNCHANGED <<cacheVars, clientVars, geoVars, runVars, kwargs, query_dict, parser>>

\* query.dict(include_nones) on the Query that was built
CallDict(include_nones) ==
    /\ constructed # None
    /\ Val(constructed).raised = None
    /\ query_dict = None
    /\ query_dict' = Some([include_nones |-> include_nones,
                           params |-> FALSE,
                           dict |-> QueryDict(Val(Val(constructed).query), include_nones)])
    /\ UNCHANGED <<cacheVars, clientVars, geoVars, runVars, kwargs, constructed, parser>>

\* Client._execute with the Query that was built: the params of the GET are
\* a copy of query.dict() (client.py:207-210)
SessionGet ==
    /\ constructed # None
    /\ Val(constructed).raised = None
    /\ query_dict = None
    /\ query_dict' = Some([include_nones |-> FALSE,
                           params |-> TRUE,
                           dict |-> QueryDict(Val(Val(constructed).query), FALSE)])
    /\ UNCHANGED <<cacheVars, clientVars, geoVars, runVars, kwargs, constructed, parser>>

\* Parser(query) on the Query that was built
CallParser ==
    /\ constructed # None
    /\ Val(constructed).raised = None
    /\ parser = None
    /\ parser' = Some(ParserNew(Val(Val(constructed).query)))
    /\ UNCHANGED <<cacheVars, clientVars, geoVars, runVars, kwargs, constructed, query_dict>>

NextQuery ==
    \/ Construct
    \/ \E include_nones \in BOOLEAN : CallDict(include_nones)
    \/ SessionGet
    \/ CallParser

SpecQuery == InitQuery /\ [][NextQuery]_vars


(***************************************************************************)
(* Properties of Query construction.                                        *)
(***************************************************************************)
Given(name) == kwargs[name] # None

Accepted == constructed # None /\ Val(constructed).raised = None

Rejected ==
    /\ constructed # None
    /\ Val(constructed).raised # None
    /\ Val(Val(constructed).raised).type = "AssertionError"

\* construction failed in the check of these fields, with this message
FailedOn(msg, field_names) ==
    /\ Rejected
    /\ Val(Val(constructed).raised).msg = msg
    /\ Val(constructed).failed = field_names

MinMaxPairs ==
    {<<"minlatitude", "maxlatitude">>, <<"minlongitude", "maxlongitude">>,
     <<"minmagnitude", "maxmagnitude">>, <<"mindepth", "maxdepth">>,
     <<"mingap", "maxgap">>, <<"mincdi", "maxcdi">>}

\* C21: when both members of a min/max pair are given, construction does not
\* fail on their order if min <= max (min = max included), and it fails with
\* a validation error if min > max.
C21_MinMaxOrdered ==
    constructed # None =>
        \A pair \in MinMaxPairs :
            (Given(pair[1]) /\ Given(pair[2])) =>
                IF Val(kwargs[pair[1]]) <= Val(kwargs[pair[2]])
                THEN ~FailedOn("is larger than", pair)
                ELSE Rejected

ExclusivePairs ==
    {<<"maxradius", "maxradiuskm">>, <<"includedeleted", "includesuperceded">>}

\* C22: construction fails whenever both members of a mutually exclusive
\* pair are given, and the exclusivity check does not fail when at most one
\* member of the pair is given.
C22_MutuallyExclusive ==
    constructed # None =>
        \A pair \in ExclusivePairs :
            IF Given(pair[1]) /\ Given(pair[2])
            THEN Rejected
            ELSE ~FailedOn("Only one of", pair)

C22_Witness ==
    /\ Given("maxradius")
    /\ Given("maxradiuskm")
    /\ FailedOn("Only one of", <<"maxradius", "maxradiuskm">>)

\* the bounds as documented: lowest and highest value, None for no bound
DocumentedBounds ==
    [latitude |-> <<Some(-90), Some(90)>>,
     minlatitude |-> <<Some(-90), Some(90)>>,
     maxlatitude |-> <<Some(-90), Some(90)>>,
     minlongitude |-> <<Some(-360), Some(360)>>,
     maxlongitude |-> <<Some(-360), Some(360)>>,
     longitude |-> <<Some(-180), Some(180)>>,
     minmagnitude |-> <<Some(0), Some(12)>>,
     maxmagnitude |-> <<Some(0), Some(12)>>,
     maxradius |-> <<Some(0), Some(180)>>,
     mingap |-> <<Some(0), Some(360)>>,
     maxgap |-> <<Some(0), Some(360)>>,
     mincdi |-> <<Some(0), Some(12)>>,
     maxcdi |-> <<Some(0), Some(12)>>,
     offset |-> <<Some(1), None>>]

WithinDocumented(name) ==
    /\ DocumentedBounds[name][1] # None => Val(DocumentedBounds[name][1]) <= Val(kwargs[name])
    /\ DocumentedBounds[name][2] # None => Val(kwargs[name]) <= Val(DocumentedBounds[name][2])

OnlyGiven(name) == \A other \in QueryFields : Given(other) <=> other = name

C24_DictOmitsNone ==
    query_dict # None =>
        LET q == Val(Val(constructed).query)
            d == Val(query_dict).dict
        IN /\ DOMAIN d = IF Val(query_dict).include_nones
                         THEN QueryFields
                         ELSE {name \in QueryFields : q[name] # None}
           /\ \A name \in DOMAIN d : d[name] = q[name]
           /\ Val(query_dict).params =>
                 DOMAIN d = {name \in QueryFields : kwargs[name] # None}

C24_Witness ==
    /\ query_dict # None
    /\ Val(query_dict).params
    /\ kwargs["limit"] = Some(0)
    /\ "limit" \in DOMAIN Val(query_dict).dict
    /\ "format" \notin DOMAIN Val(query_dict).dict

\* the parser variant of each format
ExpectedVariant ==
    [csv |-> "CSVParser", text |-> "TextParser", geojson |-> "GeojsonParser",
     xml |-> "XmlParser", quakeml |-> "XmlParser", kml |-> "KmlParser"]

\* C25: a Query can be built with each of the six formats and Parser picks
\* the variant of that format, the CSV variant when no format is given; any
\* other format is rejected.
C25_FormatSelectsParser ==
    constructed # None =>
        /\ IF Given("format") /\ Val(kwargs["format"]) \notin DOMAIN ExpectedVariant
           THEN Rejected
           ELSE ~FailedOn("Invalid", <<"format">>)
        /\ parser # None =>
              /\ Val(parser).raised = None
              /\ Val(parser).variant = IF Given("format")
                                        THEN ExpectedVariant[Val(kwargs["format"])]
                                        ELSE "CSVParser"


(***************************************************************************)
(* GeoJSON on its own: the response bodies of a fetch are unpacked by       *)
(* GeojsonParser and filtered one after the other, as the loop of           *)
(* _execute_paginiated does, and the lines gathered are handed to           *)
(* JsonWriter. JsonWriter is also called with a header and a footer alone.  *)
(***************************************************************************)
\* the features of a response: `count` features with consecutive ids
FeatureIds(first, count) == [i \in 1..count |-> first + i - 1]

\* the bodies the n-th response may have
GeoResponses(n) ==
    {GeojsonLines(n, FeatureIds(first, count)) :
        first \in 1..MaxFeatureId, count \in 0..MaxPageFeatures}

GeoFetchNew ==
    [pc |-> "fetch", page_index |-> 0, header |-> <<>>, body |-> <<>>, footer |-> <<>>,
     record_filter |-> CacheNew(<<>>, Some(UPPER_LIMIT)), error |-> None,
     lines |-> <<>>, records |-> <<>>]

InitGeojson ==
    /\ \/ /\ geo_responses \in
                UNION {{bodies \in [1..k -> UNION {GeoResponses(n) : n \in 1..k}] :
                           \A n \in 1..k : bodies[n] \in GeoResponses(n)}
                          : k \in 1..MaxGeoPages}
          /\ geo_fetch = GeoFetchNew
       \/ /\ geo_responses = <<>>
          /\ geo_fetch = [GeoFetchNew EXCEPT !.header = GeojsonHeader(GeojsonLines(1, <<>>)),
                                             !.footer = GeojsonFooter(GeojsonLines(1, <<>>))]
    /\ geo_file = <<>>
    /\ QueryIdle
    /\ RunIdle
    /\ ClientAndCacheIdle

\* one iteration of the loop of _execute_paginiated on the next response
\* body (client.py:100-121): unpack_response, the header of the first page,
\* unpack_records, the record filter
UnpackPage ==
    /\ geo_fetch.pc = "fetch"
    /\ geo_responses # <<>>
    /\ geo_responses' = Tail(geo_responses)
    /\ LET lines == Head(geo_responses)
           records == GeojsonRecords(lines)
           event_ids == [i \in 1..Len(records) |-> GeojsonEventId(records[i])]
           filtered == RecordFilterCall(geo_fetch.record_filter, records, event_ids)
       IN geo_fetch' =
             IF GeojsonRecordsRaises(lines)
             THEN [geo_fetch EXCEPT !.pc = "failed", !.error = Raise("IndexError", "", 0),
                                    !.lines = lines]
             ELSE IF \E i \in 1..Len(records) : GeojsonEventRecordRaises(records[i])
             THEN [geo_fetch EXCEPT !.pc = "failed", !.error = Raise("TypeError", "", 0),
                                    !.lines = lines, !.records = records]
             ELSE IF filtered.raised
             THEN [geo_fetch EXCEPT !.pc = "failed", !.error = Raise("KeyError", "", 0),
                                    !.lines = lines, !.records = records]
             ELSE [geo_fetch EXCEPT
                      !.lines = lines,
                      !.records = records,
                      !.page_index = @ + 1,
                      !.header = IF geo_fetch.page_index = 0 THEN GeojsonHeader(lines) ELSE @,
                      !.body = @ \o filtered.body,
                      !.footer = GeojsonFooter(lines),
                      !.record_filter = filtered.cache]
    /\ UNCHANGED <<cacheVars, clientVars, queryVars, runVars, geo_file>>

\* Writer.write_lines: nothing for an empty list, else every line appended
WriteLines(file, lines) == IF Len(lines) = 0 THEN file ELSE file \o lines

\* the footer is added to the results (client.py:129-132) and JsonWriter is
\* called with them (client.py:55-58)
WriteJson ==
    /\ geo_fetch.pc = "fetch"
    /\ geo_responses = <<>>
    /\ geo_file' = WriteLines(geo_file,
                              JsonWriterCall(geo_fetch.header \o geo_fetch.body
                                             \o geo_fetch.footer))
    /\ geo_fetch' = [geo_fetch EXCEPT !.pc = "written"]
    /\ UNCHANGED <<cacheVars, clientVars, queryVars, runVars, geo_responses>>

NextGeojson == UnpackPage \/ WriteJson

SpecGeojson == InitGeojson /\ [][NextGeojson]_vars

\* the file holds one line per record gathered, the header in front of the
\* first, the footer behind the last only and one comma behind every record
\* but the last; with no record it holds the header directly followed by
\* the footer
JoinedAsGathered ==
    geo_fetch.pc = "written" =>
        LET h == geo_fetch.header[1]
            f == geo_fetch.footer[1]
            r == geo_fetch.body
            n == Len(geo_fetch.body)
        IN IF n = 0
           THEN geo_file = <<h \o f>>
           ELSE /\ Len(geo_file) = n
                /\ \A i \in 1..n :
                      geo_file[i] = (IF i = 1 THEN h ELSE <<>>)
                                    \o r[i]
                                    \o (IF i < n THEN <<Comma>> ELSE <<>>)
                                    \o (IF i = n THEN f ELSE <<>>)

\* every record gathered is a feature, with no piece of the envelope
RecordsAreFeatures ==
    geo_fetch.pc = "written" =>
        \A i \in 1..Len(geo_fetch.body) :
            geo_fetch.body[i] = Feature(GeojsonEventId(geo_fetch.body[i]))

\* C26: the file of a GeoJSON fetch that yielded header h, the features
\* r1..rn as surviving records and footer f holds h in front of r1, f behind
\* rn only and one comma between consecutive records, so that it is one
\* features array holding r1..rn; with no record it holds h directly
\* followed by f.
C26_GeojsonJoined == JoinedAsGathered /\ RecordsAreFeatures

HasFeature(line) == \E i \in 1..Len(line) : line[i].t = "id}"

\* the response body unpacked last holds features only: one to a line
FeaturesBody ==
    /\ geo_fetch.lines # <<>>
    /\ \A i \in 1..Len(geo_fetch.lines) : HasFeature(geo_fetch.lines[i])

\* C31: GeojsonParser.records returns one record for every line of a body
\* that holds one feature to a line, a single line included, and each
\* record is the feature of its line with no comma behind it and no piece of
\* the envelope attached.
C31_OneRecordPerLine ==
    FeaturesBody =>
        /\ Len(geo_fetch.records) = Len(geo_fetch.lines)
        /\ \A i \in 1..Len(geo_fetch.records) :
              geo_fetch.records[i] = Feature(GeojsonEventId(geo_fetch.lines[i]))

\* the same for the bodies of two lines or more, where it holds
ManyLinesOneRecordEach ==
    (FeaturesBody /\ Len(geo_fetch.lines) >= 2) =>
        /\ Len(geo_fetch.records) = Len(geo_fetch.lines)
        /\ \A i \in 1..Len(geo_fetch.records) :
              geo_fetch.records[i] = Feature(GeojsonEventId(geo_fetch.lines[i]))

(***************************************************************************)
(* The recursive engine (quaker/core/run.py: run_query, get_data,           *)
(* split_query, get_last_param) with the functions it writes with           *)
(* (write_content, write_text_lines and write_json_lines of                 *)
(* quaker/core/writer.py) and the Cache of quaker/core/cache.py. A Query is *)
(* held as in the client, a CSV or text body as header and record lines, a  *)
(* GeoJSON body as lines of tokens. Every line of a body ends with a        *)
(* newline.                                                                 *)
(***************************************************************************)
\* globals.MAX_DEPTH
MAX_DEPTH == 10

\* what a call can pass for last_events: None, a bool or a Cache
NoLastEvents == [type |-> "NoneType", flag |-> FALSE, cache |-> None]

BoolLastEvents(flag) == [type |-> "bool", flag |-> flag, cache |-> None]

CacheLastEvents(c) == [type |-> "Cache", flag |-> FALSE, cache |-> Some(c)]

\* `event_id in last_events` raises TypeError on a bool
LastEventsContainsRaises(last_events) == last_events.type # "Cache"

\* Cache.append of quaker/core/cache.py: a full cache takes the leftmost
\* item off the stash and calls set.pop with it (TypeError); otherwise the
\* value joins the stash and set.append, which a set lacks, raises
\* AttributeError
CoreCacheAppend(c, value) ==
    IF CacheIsFull(c)
    THEN [cache |-> [c EXCEPT !.stash = Tail(c.stash)],
          raised |-> Raise("TypeError", "", 0)]
    ELSE [cache |-> [c EXCEPT !.stash = DequeAppend(c.stash, value, c.maxlen)],
          raised |-> Raise("AttributeError", "", 0)]

\* the loop of write_text_lines from the i-th line on
RECURSIVE TextLinesFrom(_, _, _)
TextLinesFrom(st, lines, i) ==
    IF i > Len(lines) \/ st.raised # None THEN st
    ELSE LET line == lines[i]
         IN IF EventRecordRaises(line)
            THEN [st EXCEPT !.raised = Raise("IndexError", "", 0)]
            ELSE IF LastEventsContainsRaises(st.last_events)
            THEN [st EXCEPT !.raised = Raise("TypeError", "", 0)]
            ELSE IF CacheContains(Val(st.last_events.cache), line.id)
            THEN TextLinesFrom(st, lines, i + 1)
            ELSE LET appended == CoreCacheAppend(Val(st.last_events.cache), line.id)
                 IN TextLinesFrom(
                        [file |-> Append(st.file, line),
                         lines_written |-> st.lines_written + 1,
                         last_events |-> CacheLastEvents(appended.cache),
                         raised |-> appended.raised],
                        lines, i + 1)

\* write_text_lines: next(lines) raises StopIteration on an empty body
WriteTextLines(file, lines, last_events, write_header, write_footer) ==
    IF Len(lines) = 0
    THEN [file |-> file, lines_written |-> 0, last_events |-> last_events,
          raised |-> Raise("StopIteration", "", 0)]
    ELSE TextLinesFrom(
             [file |-> IF write_header THEN Append(file, lines[1]) ELSE file,
              lines_written |-> 0, last_events |-> last_events, raised |-> None],
             lines, 2)

Newline == Tok("\n", 0)

\* `text in line`
HasToken(line, text) == \E i \in 1..Len(line) : line[i].t = text

\* str.split(sep, 2): three pieces at most
SplitTwice(line, sep) ==
    IF Len(SplitOnce(line, sep)) = 1 THEN <<line>>
    ELSE <<SplitOnce(line, sep)[1]>> \o SplitOnce(SplitOnce(line, sep)[2], sep)

\* one iteration of the loop of write_json_lines on `raw`, then the rest
RECURSIVE JsonLinesFrom(_, _, _, _, _)
JsonLinesFrom(st, lines, i, write_header, write_footer) ==
    IF i > Len(lines) \/ st.raised # None THEN st
    ELSE
    LET raw == lines[i]
        opens == HasToken(raw, "{metadata")
        opened == SplitOnce(raw, OpenBracket)
        head == IF opens THEN Some(opened[1] \o <<OpenBracket>>) ELSE st.header
        rest == IF opens THEN opened[2] ELSE raw
        closes == HasToken(rest, "bbox")
        closed == SplitTwice(rest, CloseBracket)
        foot == IF closes THEN Some(<<CloseBracket>> \o closed[Len(closed)])
                  ELSE st.footer
        feature == IF closes THEN Join(DropLast(closed, 1), CloseBracket) ELSE rest
        headed == head # None /\ write_header
        footed == foot # None /\ write_footer
        line == IF footed THEN RemoveSuffix(feature, Comma)
                ELSE RemoveSuffix(feature, Comma) \o <<Comma, Newline>>
        file1 == IF headed THEN Append(st.file, Val(head)) ELSE st.file
        head1 == IF headed THEN None ELSE head
        seen == Val(st.last_events.cache)
        appended == CoreCacheAppend(seen, GeojsonEventId(raw))
    IN IF ~HasToken(raw, "id}")
       THEN [st EXCEPT !.raised = Raise("TypeError", "", 0)]
       ELSE IF opens /\ Len(opened) < 2
       THEN [st EXCEPT !.raised = Raise("ValueError", "", 0)]
       ELSE IF LastEventsContainsRaises(st.last_events)
       THEN [st EXCEPT !.file = file1, !.header = head1, !.footer = foot,
                       !.raised = Raise("TypeError", "", 0)]
       ELSE IF CacheContains(seen, GeojsonEventId(raw))
       THEN JsonLinesFrom(
                [st EXCEPT !.file = IF footed
                                    THEN Append(file1, Val(foot) \o <<Newline>>)
                                    ELSE file1,
                           !.header = head1,
                           !.footer = IF footed THEN None ELSE foot],
                lines, i + 1, write_header, write_footer)
       \* last_events.append raises, which ends the loop
       ELSE [st EXCEPT !.file = Append(file1, line),
                       !.lines_written = @ + 1,
                       !.last_events = CacheLastEvents(appended.cache),
                       !.header = head1, !.footer = foot,
                       !.raised = appended.raised]

\* write_json_lines
WriteJsonLines(file, lines, last_events, write_header, write_footer) ==
    LET st == JsonLinesFrom(
                  [file |-> file, lines_written |-> 0, last_events |-> last_events,
                   raised |-> None, header |-> None, footer |-> None],
                  lines, 1, write_header, write_footer)
    IN [file |-> st.file, lines_written |-> st.lines_written,
        last_events |-> st.last_events, raised |-> st.raised]

\* the dict `writers` of write_content; "" stands for None
Writers ==
    [geojson |-> "write_json_lines", csv |-> "write_text_lines",
     text |-> "write_text_lines", quakeml |-> "", kml |-> "", xml |-> ""]

\* write_content(download, output_file, query, last_events, write_header,
\* write_footer): the file is opened (and so created) before anything is
\* written, and what was written stays when the writing raises; file is
\* None while output_file does not exist
WriteContent(lines, file, q, last_events, write_header, write_footer) ==
    LET events == IF last_events.type = "NoneType"
                  THEN CacheLastEvents(CacheNew(<<>>, Some(UPPER_LIMIT)))
                  ELSE last_events
        opened == IF file = None THEN <<>> ELSE Val(file)
        written == IF Writers[q.format] = "write_json_lines"
                   THEN WriteJsonLines(opened, lines, events, write_header, write_footer)
                   ELSE WriteTextLines(opened, lines, events, write_header, write_footer)
    IN IF Writers[q.format] = ""
       THEN [file |-> file, last_events |-> events,
             raised |-> Raise("NotImplementedError", "", 0)]
       ELSE [file |-> Some(written.file), last_events |-> written.last_events,
             raised |-> IF written.raised # None THEN written.raised
                        ELSE IF written.lines_written = 0
                        THEN Raise("ValueError", "No lines were written", 0)
                        ELSE None]

\* get_last_param: content[:1:-1] is the body without its first two
\* characters, read backwards; split on the newline, its second piece is
\* the last line (the body ends with a newline), which a body of one line
\* yields without its first two characters and an empty body not at all.
\* The value is a cell of that line, as bytes. On GeoJSON the bytes are
\* split on a str, which raises TypeError.
GetLastParam(lines, file_format, order) ==
    IF file_format \in {"kml", "xml", "quakeml"}
    THEN [raised |-> Raise("NotImplementedError", "", 0), value |-> None]
    ELSE IF Len(lines) = 0
    THEN [raised |-> Raise("IndexError", "", 0), value |-> None]
    ELSE IF file_format = "geojson"
    THEN [raised |-> Raise("TypeError", "", 0), value |-> None]
    ELSE [raised |-> None,
          value |-> Some([cell |-> IF order = "time" THEN "time" ELSE "mag",
                          row |-> lines[Len(lines)],
                          clipped |-> Len(lines) = 1,
                          type |-> "bytes"])]

\* _BaseQuery.__post_init__ on a time field: a value that is no str is
\* passed through str, which wraps bytes in b'...'
TypecastStr(value) ==
    IF value.type = "str" THEN value ELSE [value EXCEPT !.type = "str of bytes"]

\* _QueryTime.check_time_field_is_valid: dt.fromisoformat takes the time
\* the service prints, and neither the b'...' of bytes nor a clipped cell
TimeFieldIsValid(value) ==
    /\ value.type = "str"
    /\ value.cell = "time"
    /\ value.row.kind \in {"record", "truncated"}
    /\ ~value.clipped

\* Query(**{**asdict(query), name: value}) for a time field
QueryWithTime(q, name, value) ==
    IF ~TimeFieldIsValid(TypecastStr(value))
    THEN [raised |-> Raise("ValueError", "Invalid time given", 0), query |-> None]
    ELSE [raised |-> None,
          query |-> Some([q EXCEPT ![name] = Some(TypecastStr(value).row.time.iso)])]

\* split_query: None has no split (AttributeError)
SplitQuery(q, lines) ==
    LET order == IF q.orderby \in {"time", "time-asc"} THEN "time"
                 ELSE IF q.orderby \in {"magnitude", "magnitude-asc"} THEN "magnitude"
                 ELSE q.orderby
        order_asc == q.orderby \in {"time-asc", "magnitude-asc"}
        next_param == GetLastParam(lines, q.format, order)
        \* next_prefixes[int(order_asc)] + order, for the order "time"
        next_arg == IF order_asc THEN "starttime" ELSE "endtime"
    IN IF q.orderby = "none"
       THEN [raised |-> Raise("AttributeError", "", 0), query |-> None]
       ELSE IF order = "magnitude"
       THEN [raised |-> Raise("NotImplementedError", "", 0), query |-> None]
       ELSE IF order # "time"
       THEN [raised |-> Raise("ValueError", "", 0), query |-> None]
       ELSE IF next_param.raised # None
       THEN [raised |-> next_param.raised, query |-> None]
       ELSE QueryWithTime(q, next_arg, Val(next_param.value))

\* query_hat of run_query
QueryHat(q) == [q EXCEPT !.limit = Some(UPPER_LIMIT)]

\* the query get_data is sending: asdict(query), unset fields included
RunSending == IF run.capped THEN QueryHat(run.query) ELSE run.query

\* run_query is left: by a return, or by the exception `raised`
RunLeft(r, raised) ==
    [r EXCEPT !.pc = IF raised = None THEN "done" ELSE "failed", !.error = raised]

\* one GET of get_data answered 404: another attempt follows until
\* MAX_ATTEMPTS are made, then run_query gets the 404 response, which is
\* neither expected of the query nor of the capped query (whose message
\* carries the status of the first download, 400)
RunGetNotFound ==
    /\ run.pc = "get"
    /\ LET r == [run EXCEPT !.history = Append(@, RunSending),
                            !.answers = Append(@, [status |-> 404, lines |-> <<>>]),
                            !.attempts = @ + 1]
       IN run' = IF r.attempts < MAX_ATTEMPTS THEN r
                 ELSE IF run.capped
                 THEN RunLeft(r, Raise("RuntimeError",
                                       "Unexpected response code on split query", 400))
                 ELSE RunLeft(r, Raise("RuntimeError",
                                       "Unexpected response code on query", 404))
    /\ UNCHANGED <<cacheVars, clientVars, queryVars, geoVars>>

\* one GET of get_data answered otherwise, and run_query up to its next
\* GET. write_content is called with write_header as its fourth argument,
\* which is last_events; its own write_header keeps the default True.
RunGetResponse(status, lines) ==
    /\ run.pc = "get"
    /\ LET r == [run EXCEPT !.history = Append(@, RunSending),
                            !.answers = Append(@, [status |-> status, lines |-> lines]),
                            !.attempts = 0]
           written == WriteContent(lines, run.file, RunSending,
                                   BoolLastEvents(run.write_header), TRUE, ~run.capped)
           remainder == SplitQuery(run.query, lines)
       IN run' =
             IF ~run.capped
             THEN IF status = 204 THEN RunLeft(r, None)
                  ELSE IF status \notin {200, 400}
                  THEN RunLeft(r, Raise("RuntimeError",
                                        "Unexpected response code on query", status))
                  ELSE IF status = 200
                  THEN RunLeft([r EXCEPT !.file = written.file], written.raised)
                  ELSE [r EXCEPT !.capped = TRUE]
             ELSE IF status # 200
             THEN RunLeft(r, Raise("RuntimeError",
                                   "Unexpected response code on split query", 400))
             ELSE IF written.raised # None
             THEN RunLeft([r EXCEPT !.file = written.file], written.raised)
             ELSE IF remainder.raised # None
             THEN RunLeft([r EXCEPT !.file = written.file], remainder.raised)
             ELSE IF run.index + 1 >= MAX_DEPTH
             THEN RunLeft([r EXCEPT !.file = written.file, !.index = @ + 1], None)
             ELSE [r EXCEPT !.file = written.file,
                            !.query = Val(remainder.query),
                            !.capped = FALSE,
                            !.write_header = FALSE,
                            !.index = @ + 1]
    /\ UNCHANGED <<cacheVars, clientVars, queryVars, geoVars>>

(***************************************************************************)
(* run_query on its own: one call of run_query(query, session, output_file) *)
(* with the output file not there yet, against a service that answers each  *)
(* GET with any status and, under 200, any of a few bodies.                 *)
(***************************************************************************)
MaxRows == 2

MaxRowId == 2

\* Query(format="kml") is refused, so no run starts with it
RunFormats == {"csv", "text", "geojson", "xml"}

RowEvent(id) == [id |-> id, time |-> MaxRowId + MaxRows - id, mag |-> 1]

\* the bodies of a 200 answer: nothing at all, or the header, up to MaxRows
\* events with consecutive ids (the last one possibly cut short) and the
\* footer
RunBodies(format) ==
    {<<>>} \cup
    (IF format = "geojson"
     THEN {GeojsonLines(1, [i \in 1..count |-> first + i - 1]) :
              first \in 1..MaxRowId, count \in 0..MaxRows}
     ELSE {HeaderLines(format, 1)
           \o [i \in 1..count |-> RecordLine(RowEvent(first + i - 1))]
           \o FooterLines(format, 1) : first \in 1..MaxRowId, count \in 0..MaxRows}
          \cup {HeaderLines(format, 1) \o <<TruncatedLine(RowEvent(1))>>})

RunStatuses == {200, 204, 400, 500}

InitRun ==
    /\ \E format \in RunFormats, orderby \in OrderBys, lim \in {None, Some(1)} :
          run = [pc |-> "get", query |-> NewQuery(format, orderby, lim),
                 capped |-> FALSE, write_header |-> TRUE, index |-> 0, attempts |-> 0,
                 history |-> <<>>, answers |-> <<>>, file |-> None, error |-> None]
    /\ QueryIdle
    /\ GeoIdle
    /\ ClientAndCacheIdle

NextRun ==
    \/ RunGetNotFound
    \/ \E status \in RunStatuses, lines \in RunBodies(run.query.format) :
          /\ status # 200 => lines = <<>>
          /\ RunGetResponse(status, lines)

SpecRun == InitRun /\ [][NextRun]_vars

\* a body that holds the header and one record line or more, all whole
WholePage(lines) ==
    /\ Len(lines) >= 2
    /\ lines[1].kind = "header"
    /\ \A i \in 2..Len(lines) : lines[i].kind = "record"

\* the answers so far are those of a fetch that splits: 400 to a query (or
\* 200 with a page, which ends it), and 200 with a page to every capped
\* query
SplitFetchAnswers ==
    /\ run.query.format = "csv"
    /\ run.query.orderby \in {"none", "time"}
    /\ \A k \in 1..Len(run.answers) :
          /\ run.answers[k].status \in {200, 400}
          /\ k % 2 = 0 => run.answers[k].status = 200
          /\ run.answers[k].status = 200 => WholePage(run.answers[k].lines)
          /\ (k % 2 = 1 /\ run.answers[k].status = 200) => k = Len(run.answers)

\* the record lines of the pages answered, in the order they came
RECURSIVE PagesRows(_)
PagesRows(answers) ==
    IF Len(answers) = 0 THEN <<>>
    ELSE (IF answers[1].status = 200 THEN Tail(answers[1].lines) ELSE <<>>)
         \o PagesRows(Tail(answers))

\* C30: in run_query a 200 answer to the query ends the run after that one
\* request, and a 400 answer makes it send the query again with limit =
\* UPPER_LIMIT, write that page and go on with a remainder query that
\* carries an endtime: a fetch answered 400, page, 400, page, page never
\* fails, and when it has ended it has made one request per answer, the
\* even ones with a limit, the third and later ones with an endtime, and
\* the file holds the header of the first page once, followed by the rows
\* of all pages.
C30_RunQuerySplits ==
    SplitFetchAnswers =>
        /\ run.pc # "failed"
        /\ run.pc = "done" =>
              /\ Len(run.history) = Len(run.answers)
              /\ run.answers[Len(run.answers)].status = 200
              /\ \A k \in 1..Len(run.history) :
                    /\ (run.history[k].limit # None) <=> (k % 2 = 0)
                    /\ (run.history[k].endtime # None) <=> (k >= 3)
              /\ run.file = Some(<<run.answers[IF Len(run.answers) = 1 THEN 1 ELSE 2].lines[1]>>
                                 \o PagesRows(run.answers))

(***************************************************************************)
(* The paginated fetch of a caller whose Query carries bounds: a lower and  *)
(* an upper bound on the field it orders by and a lower bound on the other  *)
(* field, each of them set or not, against the event service.               *)
(***************************************************************************)
MaxBoundedEvents == 4

BoundedKeyLists == {keys \in KeyLists : Len(keys) <= MaxBoundedEvents}

OptionalKeys == {None} \cup {Some(k) : k \in Keys}

\* Query(...) with the bounds given as keyword arguments
NewQueryBounded(format, orderby, lim, lower, upper, other) ==
    IF TimeOrdered(orderby)
    THEN [NewQuery(format, orderby, lim) EXCEPT
             !.starttime = lower, !.endtime = upper, !.minmagnitude = other]
    ELSE [NewQuery(format, orderby, lim) EXCEPT
             !.minmagnitude = lower, !.maxmagnitude = upper, !.starttime = other]

InitBounded ==
    /\ cache = CacheNew(<<>>, None)
    /\ cacheOp = [op |-> "new", value |-> 0, full |-> FALSE, oldest |-> 0, raised |-> FALSE]
    /\ QueryIdle
    /\ GeoIdle
    /\ RunIdle
    /\ pc = "loop"
    /\ \E orderby \in OrderBys, caller_limit \in {None, Some(UPPER_LIMIT + 1)},
          keys \in BoundedKeyLists, lower \in OptionalKeys, upper \in OptionalKeys,
          other \in {None, Some(1)} :
          /\ QueryValid(NewQueryBounded("csv", orderby, caller_limit, lower, upper, other))
          /\ query = NewQueryBounded("csv", orderby, caller_limit, lower, upper, other)
          /\ caller_query = PassedQuery(query)
          /\ limit = caller_limit
          /\ catalogue = CatalogueOf(keys, orderby)
    /\ page_index = 0
    /\ has_next_page = TRUE
    /\ results = <<>>
    /\ footer = <<>>
    /\ record_filter = CacheNew(<<>>, Some(UPPER_LIMIT))
    /\ history = <<>>
    /\ pages = <<>>
    /\ ExecIdle

SpecBounded == InitBounded /\ [][Next]_vars

\* the fields of a Query that a fetch with this orderby leaves alone
KeptFields(orderby) == DOMAIN query \ {CursorFieldOf(orderby), "limit"}

\* C32: within one fetch every Query field other than the active cursor
\* field and the limit (the filters, the format and the orderby) has the
\* same value in every request, and in the Query derived for the next one.
C32_FiltersKept ==
    \A i \in 1..Len(history) :
        \A f \in KeptFields(history[1].orderby) :
            /\ history[i][f] = history[1][f]
            /\ query[f] = history[1][f]

\* a second request went out with its cursor moved, the opposite bound and
\* the bound on the other field still as the caller set them
C32_Witness ==
    /\ Len(history) >= 2
    /\ query.orderby = "magnitude-asc"
    /\ history[2].minmagnitude # history[1].minmagnitude
    /\ history[2].maxmagnitude # None
    /\ history[2].starttime # None
    /\ history[2].limit # history[1].limit

\* C35: whatever the ordering mode, the Query that _next_page derives from
\* a page of the event service (whose records lie within the inclusive
\* bounds of the query it answers) is valid: its construction raises no
\* assertion, also when the cursor value taken from the last record equals
\* the opposite bound the caller set.
C35_NextPageValid == ~RaisedError("AssertionError")

(***************************************************************************)
(* Client.execute into a path that may hold a file already, or into the     *)
(* standard output (Writer._validate_output_file, Writer.cleanup_output,    *)
(* Writer.write_lines and Client._write_results).                           *)
(***************************************************************************)
\* globals.STDOUT
STDOUT == "/dev/stdout"

\* a line that was in the file, or on the standard output, before the call
OldLine == Line("old", 0, 0, 0, NoTime, 0)

ExistingFile == [exists |-> TRUE, lines |-> <<OldLine>>]

\* a variant that does not look whether the file exists
ValidateOutputFileUnchecked(file, disk) ==
    IF file = STDOUT THEN [raised |-> None, disk |-> disk]
    ELSE [raised |-> None, disk |-> [exists |-> TRUE, lines |-> disk.lines]]

\* Writer._validate_output_file: the standard output is taken as it is, a
\* path that exists raises FileExistsError, any other path is touched
ValidateOutputFile(file, disk) ==
    IF file = STDOUT THEN [raised |-> None, disk |-> disk]
    ELSE IF disk.exists
    THEN [raised |-> Raise("FileExistsError", "File exists", 0), disk |-> disk]
    ELSE [raised |-> None, disk |-> Touched]

\* Writer.cleanup_output
CleanupOutput(file, disk) ==
    IF file # STDOUT /\ disk.exists THEN NoFile ELSE disk

\* open(self.output_file, "a") and f.writelines
AppendLines(disk, lines) == [exists |-> TRUE, lines |-> disk.lines \o lines]

\* _write_results and the end of execute for an output file (client.py:
\* 37-42, 52-75): Writer(output_file, query) is built outside the try
WriteToPath(event, n) ==
    /\ pc = "done"
    /\ output_file # None
    /\ n \in PartialLengths(results)
    /\ LET validated == ValidateOutputFile(Val(output_file), sink)
           written == AppendLines(validated.disk, Take(results, n))
       IN CASE event = "interrupt_writer" ->
                  \* the interrupt reaches the caller, the file touched or not
                  /\ n = 0
                  /\ interrupted = "no"
                  /\ interrupted' = "write"
                  /\ pc' = "failed"
                  /\ error' = Raise("KeyboardInterrupt", "", 0)
                  /\ sink' \in {sink, validated.disk}
            [] event # "interrupt_writer" /\ validated.raised # None ->
                  /\ n = 0
                  /\ pc' = "failed"
                  /\ error' = validated.raised
                  /\ UNCHANGED <<sink, interrupted>>
            [] event = "interrupt_try" /\ validated.raised = None ->
                  \* line 64, then cleanup_output; (None, None) is returned
                  /\ n = 0
                  /\ interrupted = "no"
                  /\ interrupted' = "write"
                  /\ pc' = "returned"
                  /\ sink' = CleanupOutput(Val(output_file), validated.disk)
                  /\ UNCHANGED error
            [] event = "interrupt_writelines" /\ validated.raised = None ->
                  \* writer.py:58: logged and dropped, write_lines returns
                  /\ results # <<>>
                  /\ interrupted = "no"
                  /\ interrupted' = "write"
                  /\ pc' = "returned"
                  /\ sink' = written
                  /\ UNCHANGED error
            [] event = "exception" /\ validated.raised = None ->
                  \* writer.py:60-65 raises it again, line 66 keeps it,
                  \* cleanup_output runs, line 40 raises it
                  /\ results # <<>>
                  /\ pc' = "failed"
                  /\ error' = Raise("OSError", "", 0)
                  /\ sink' = CleanupOutput(Val(output_file), written)
                  /\ UNCHANGED interrupted
            [] OTHER ->
                  \* an empty list of lines is not written (writer.py:50-52)
                  /\ n = 0
                  /\ pc' = "returned"
                  /\ sink' = IF results = <<>> THEN validated.disk
                             ELSE AppendLines(validated.disk, results)
                  /\ UNCHANGED <<error, interrupted>>
    /\ UNCHANGED <<unitVars, catalogue, query, limit, page_index, has_next_page, results,
                   footer, record_filter, history, pages, caller_query, attempts,
                   output_file, output>>

OutputPaths == {"new", "existing", STDOUT}

InitFiles ==
    /\ cache = CacheNew(<<>>, None)
    /\ cacheOp = NoOp
    /\ QueryIdle
    /\ GeoIdle
    /\ RunIdle
    /\ pc = "loop"
    /\ catalogue = <<>>
    /\ \E format \in Formats, caller_limit \in {None, Some(1)}, file \in OutputPaths :
          /\ output_file = Some(file)
          /\ sink = IF file = "new" THEN NoFile ELSE ExistingFile
          /\ query = NewQuery(format, "none", caller_limit)
          /\ caller_query = PassedQuery(NewQuery(format, "none", caller_limit))
          /\ limit = caller_limit
    /\ page_index = 0
    /\ has_next_page = TRUE
    /\ results = <<>>
    /\ footer = <<>>
    /\ record_filter = CacheNew(<<>>, Some(UPPER_LIMIT))
    /\ history = <<>>
    /\ pages = <<>>
    /\ attempts = 0
    /\ error = None
    /\ output = None
    /\ interrupted = "no"

NextFiles ==
    \/ GetNotFound
    \/ \E status \in Statuses, kind \in Answers : GetResponse(status, kind)
    \/ ReturnResults
    \/ InterruptFetch
    \/ \E event \in WriteEvents, n \in 0..(UPPER_LIMIT * MAX_PAGES + 5) : WriteToPath(event, n)

SpecFiles == InitFiles /\ [][NextFiles]_vars

\* C37: execute never changes or removes an output file that was there
\* before the call: it does not return normally (writing ends in
\* FileExistsError) and the file holds what it held; cleanup removes only
\* a file the call itself made, and the standard output keeps everything
\* that was written to it.
C37_ExistingFileUntouched ==
    /\ output_file = Some("existing") =>
          /\ sink = ExistingFile
          /\ pc # "returned"
          /\ (pc = "failed" /\ interrupted = "no" /\ Len(pages) = Len(history)
              /\ ~has_next_page /\ error # None /\ Val(error).status = 0
              /\ Val(error).type \notin {"IndexError", "TypeError", "KeyError", "AssertionError"})
                => RaisedError("FileExistsError")
    /\ output_file = Some(STDOUT) =>
          /\ sink.exists
          /\ Take(sink.lines, 1) = <<OldLine>>

\* a fetch that gathered lines ended in FileExistsError
C37_Witness ==
    /\ output_file = Some("existing")
    /\ results # <<>>
    /\ RaisedError("FileExistsError")
    /\ sink = ExistingFile

(***************************************************************************)
(* The RecordFilter of one fetch (client.py:79, 112-119): built empty with  *)
(* maxlen=UPPER_LIMIT, called on page after page, its survivors added to    *)
(* the results. The pages are any lists of event ids.                       *)
(***************************************************************************)
MaxPageLen == 5

MaxExamined == 6

FilterIds == 1..(UPPER_LIMIT + 1)

\* the record lines of a page: the number of the page, the place of the
\* line on it, and the event id the parser reads from it
PageRecords(page, event_ids) ==
    [i \in 1..Len(event_ids) |-> [page |-> page, no |-> i, id |-> event_ids[i]]]

NoFilterCall ==
    [op |-> "new", calls |-> 0, seen |-> <<>>, records |-> <<>>, event_ids |-> <<>>,
     body |-> <<>>, before |-> CacheNew(<<>>, Some(UPPER_LIMIT)), merged |-> <<>>,
     raised |-> FALSE]

InitFilter ==
    /\ cache = CacheNew(<<>>, Some(UPPER_LIMIT))
    /\ cacheOp = NoFilterCall
    /\ QueryIdle
    /\ GeoIdle
    /\ RunIdle
    /\ ClientIdle

\* records = record_filter(records_raw, event_ids); results += records
FilterPage(event_ids) ==
    /\ pc = "idle"
    /\ event_ids # <<>>
    /\ ~cacheOp.raised
    /\ cacheOp.calls < MAX_PAGES
    /\ Len(cacheOp.seen) + Len(event_ids) <= MaxExamined
    /\ LET records == PageRecords(cacheOp.calls + 1, event_ids)
           out == RecordFilterCall(cache, records, event_ids)
       IN /\ cache' = out.cache
          /\ cacheOp' = [op |-> "filter",
                         calls |-> cacheOp.calls + 1,
                         seen |-> cacheOp.seen \o event_ids,
                         records |-> records,
                         event_ids |-> event_ids,
                         body |-> out.body,
                         before |-> cache,
                         merged |-> cacheOp.merged \o out.body,
                         raised |-> out.raised]
    /\ UNCHANGED <<clientVars, queryVars, geoVars, runVars>>

\* the largest id among those seen, 0 when none was
TopId(ids) == IF ids = <<>> THEN 0 ELSE CHOOSE x \in Range(ids) : \A y \in Range(ids) : y <= x

\* the pages of up to n ids over FilterIds in which an id not seen so far is
\* the next unused number: ids are only ever compared for equality, so
\* every page is one of these up to a renaming of its ids
RECURSIVE PagesFrom(_, _)
PagesFrom(top, n) ==
    IF n = 0 THEN {<<>>}
    ELSE {<<>>} \cup
         UNION {{<<x>> \o rest : rest \in PagesFrom(IF x > top THEN x ELSE top, n - 1)} :
                   x \in {y \in FilterIds : y <= top + 1}}

NextFilter ==
    \E event_ids \in PagesFrom(TopId(cacheOp.seen),
                              Min(MaxPageLen, MaxExamined - Len(cacheOp.seen))) :
       FilterPage(event_ids)

SpecFilter == InitFilter /\ [][NextFilter]_vars

IdsOf(records) == [i \in 1..Len(records) |-> records[i].id]

\* the last maxlen items of a sequence
Window(ids, maxlen) == IF maxlen = None THEN ids ELSE TakeLast(ids, Val(maxlen))

\* what a sliding window over the output lets through: an id passes when it
\* is not among the last maxlen ids that passed
RECURSIVE Survivors(_, _, _)
Survivors(out, rest, maxlen) ==
    IF rest = <<>> THEN out
    ELSE IF Head(rest) \in Range(Window(out, maxlen))
    THEN Survivors(out, Tail(rest), maxlen)
    ELSE Survivors(Append(out, Head(rest)), Tail(rest), maxlen)

\* C38: in the merged output of a fetch an id is dropped exactly when it is
\* among the last maxlen ids that survived: the output is what a sliding
\* window over the output itself lets through, two records with one id have
\* at least maxlen survivors between them, and an id that left the window
\* comes out again.
C38_SlidingWindow ==
    LET ids == IdsOf(cacheOp.merged)
    IN /\ ~cacheOp.raised
       /\ ids = Survivors(<<>>, cacheOp.seen, cache.maxlen)
       /\ \A i, j \in 1..Len(ids) :
             (i < j /\ ids[i] = ids[j]) => j - i - 1 >= Val(cache.maxlen)
       /\ \A k \in 1..Len(cacheOp.seen) :
             cacheOp.seen[k] \notin Range(Window(Survivors(<<>>, Take(cacheOp.seen, k - 1),
                                                          cache.maxlen), cache.maxlen))
                => \E i \in 1..Len(ids) :
                      /\ ids[i] = cacheOp.seen[k]
                      /\ i = Len(Survivors(<<>>, Take(cacheOp.seen, k), cache.maxlen))

\* an id came out, maxlen others came out after it, and it came out again
C38_Witness ==
    LET ids == IdsOf(cacheOp.merged)
    IN /\ cacheOp.calls >= 2
       /\ Len(ids) < Len(cacheOp.seen)
       /\ \E i, j \in 1..Len(ids) : i < j /\ ids[i] = ids[j]

\* the places of the page whose record was kept
KeptPlaces == {r.no : r \in Range(cacheOp.body)}

\* the ids the cache held when place i of the page was examined: the window
\* over what it held before the call and the ids kept before place i
HeldAt(i) ==
    Range(Window(cacheOp.before.stash
                    \o IdsOf(SelectSeq(cacheOp.records,
                                       LAMBDA r : r.no < i /\ r.no \in KeptPlaces)),
                 cacheOp.before.maxlen))

FilterCallRight ==
    cacheOp.op = "filter" =>
       /\ ~cacheOp.raised
       /\ cacheOp.body = SelectSeq(cacheOp.records, LAMBDA r : r.no \in KeptPlaces)
       /\ \A i \in 1..Len(cacheOp.records) :
             i \in KeptPlaces <=> cacheOp.event_ids[i] \notin HeldAt(i)
       /\ cache.stash = Window(cacheOp.before.stash \o IdsOf(cacheOp.body),
                               cacheOp.before.maxlen)
       /\ cache.registry = Range(cache.stash)
       /\ cache.maxlen = cacheOp.before.maxlen
       /\ KeptPlaces = {} => cache = cacheOp.before
       /\ Len(cacheOp.body)
             + Cardinality({i \in 1..Len(cacheOp.records) : cacheOp.event_ids[i] \in HeldAt(i)})
          = Len(cacheOp.records)

\* C39 as stated: a call of RecordFilter keeps, in input order, exactly the
\* records whose id the cache did not hold when they were examined, adds the
\* kept ids, leaves the cache alone for the dropped ones, kept and dropped
\* add up to the input, and an id repeated on the page is kept once.
C39_Original ==
    /\ FilterCallRight
    /\ \A i, j \in 1..Len(cacheOp.body) :
          cacheOp.body[i].id = cacheOp.body[j].id => i = j

\* C39: the same, an id repeated on the page being kept once when the page
\* has no more records than the cache has room for.
C39_FilterCall ==
    /\ FilterCallRight
    /\ Len(cacheOp.records) <= Val(cacheOp.before.maxlen) =>
          \A i, j \in 1..Len(cacheOp.body) :
             cacheOp.body[i].id = cacheOp.body[j].id => i = j

\* a page with a repeated id and an id seen before, both dropped
C39_Witness ==
    /\ cacheOp.op = "filter"
    /\ cacheOp.calls >= 2
    /\ Len(cacheOp.records) <= Val(cacheOp.before.maxlen)
    /\ \E i, j \in 1..Len(cacheOp.event_ids) :
          /\ i < j
          /\ cacheOp.event_ids[i] = cacheOp.event_ids[j]
          /\ i \in KeptPlaces
          /\ j \notin KeptPlaces
    /\ \E i \in 1..Len(cacheOp.event_ids) :
          /\ cacheOp.event_ids[i] \in Range(cacheOp.before.stash)
          /\ i \notin KeptPlaces

====
